---- MODULE Spec2Model ----
(***************************************************************************)
(* btp-ops-copilot: the ingest route (log parser) and the analyze route    *)
(* (rule-based analyzer), modelled at the level of characters.             *)
(*                                                                         *)
(* A JavaScript string is a sequence of one-character strings, so that     *)
(* trimming, splitting, substring tests and the regular expressions of the *)
(* source are computed, not assumed.  Operators that scan a string are     *)
(* written with bounded quantifiers over positions rather than by          *)
(* recursion over characters.                                              *)
(***************************************************************************)
EXTENDS Integers, Sequences, FiniteSets, TLC

VARIABLES ingestReq, ingestRes, analyzeReq, analyzeRes, calls, page, net

vars == <<ingestReq, ingestRes, analyzeReq, analyzeRes, calls, page, net>>

(***************************************************************************)
(* Characters                                                              *)
(***************************************************************************)
LowerLetters == <<"a","b","c","d","e","f","g","h","i","j","k","l","m",
                  "n","o","p","q","r","s","t","u","v","w","x","y","z">>
UpperLetters == <<"A","B","C","D","E","F","G","H","I","J","K","L","M",
                  "N","O","P","Q","R","S","T","U","V","W","X","Y","Z">>
LowerSet == {LowerLetters[i] : i \in 1..26}
UpperSet == {UpperLetters[i] : i \in 1..26}
DigitSeq == <<"0","1","2","3","4","5","6","7","8","9">>
DigitSet == {DigitSeq[i] : i \in 1..10}

\* a character outside printable ASCII that is white space to trim() and \s
OtherSpace == "<sp>"
\* any other character outside printable ASCII
OtherChar == "<ch>"

\* String.prototype.trim and the class \s: white space and line terminators
SpaceSet == {" ", "\t", "\n", "\r", "\f", OtherSpace}
IsSpace(c) == c \in SpaceSet
IsDigit(c) == c \in DigitSet
IsAlpha(c) == c \in LowerSet \/ c \in UpperSet
\* the class \w
IsWord(c) == IsAlpha(c) \/ IsDigit(c) \/ c = "_"
\* the class [0-9a-fA-F]
IsHex(c) == \/ IsDigit(c)
            \/ c \in {"a","b","c","d","e","f","A","B","C","D","E","F"}
\* what "." matches: anything but a line terminator
IsLineTerminator(c) == c \in {"\n", "\r"}

ToUpperFn == [c \in LowerSet |->
                UpperLetters[CHOOSE i \in 1..26 : LowerLetters[i] = c]]
ToLowerFn == [c \in UpperSet |->
                LowerLetters[CHOOSE i \in 1..26 : UpperLetters[i] = c]]

\* forces a sequence expression to a value, so that it is evaluated once
Force(s) == SubSeq(s, 1, Len(s))

toUpperCase(s) ==
  Force([i \in 1..Len(s) |-> IF s[i] \in LowerSet THEN ToUpperFn[s[i]] ELSE s[i]])

toLowerCase(s) ==
  Force([i \in 1..Len(s) |-> IF s[i] \in UpperSet THEN ToLowerFn[s[i]] ELSE s[i]])

\* s has pat at position i (1-based)
HasAt(s, i, pat) ==
  /\ i >= 1
  /\ i + Len(pat) - 1 <= Len(s)
  /\ \A j \in 1..Len(pat) : s[i + j - 1] = pat[j]

\* String.prototype.includes
includes(s, pat) == \E i \in 1..(Len(s) - Len(pat) + 1) : HasAt(s, i, pat)

\* String.prototype.startsWith
startsWith(s, pat) == HasAt(s, 1, pat)

\* String.prototype.endsWith
endsWith(s, pat) == HasAt(s, Len(s) - Len(pat) + 1, pat)

\* String.prototype.trim
trim(s) ==
  IF \A i \in 1..Len(s) : IsSpace(s[i]) THEN <<>>
  ELSE LET first == CHOOSE i \in 1..Len(s) :
                      /\ ~IsSpace(s[i])
                      /\ \A j \in 1..(i - 1) : IsSpace(s[j])
           last  == Len(s) - (CHOOSE k \in 0..(Len(s) - 1) :
                      /\ ~IsSpace(s[Len(s) - k])
                      /\ \A j \in (Len(s) - k + 1)..Len(s) : IsSpace(s[j]))
       IN SubSeq(s, first, last)

\* the least element of a non-empty set of integers within lo..hi,
\* found by halving the range
RECURSIVE MinIn(_, _, _)
MinIn(S, lo, hi) ==
  IF lo >= hi THEN lo
  ELSE LET mid == (lo + hi) \div 2
       IN IF \E x \in S : x >= lo /\ x <= mid
            THEN MinIn(S, lo, mid)
            ELSE MinIn(S, mid + 1, hi)

\* the elements of a set of integers within lo..hi in increasing order,
\* built by halving the range
RECURSIVE SortedSeq(_, _, _)
SortedSeq(S, lo, hi) ==
  IF lo > hi THEN <<>>
  ELSE IF lo = hi THEN (IF lo \in S THEN <<lo>> ELSE <<>>)
  ELSE LET mid == (lo + hi) \div 2
       IN SortedSeq(S, lo, mid) \o SortedSeq(S, mid + 1, hi)

\* the concatenation of the strings parts[lo..hi], built by halving the range
RECURSIVE Concat(_, _, _)
Concat(parts, lo, hi) ==
  IF lo > hi THEN <<>>
  ELSE IF lo = hi THEN parts[lo]
  ELSE LET mid == (lo + hi) \div 2
       IN Concat(parts, lo, mid) \o Concat(parts, mid + 1, hi)

\* Array.prototype.join
join(parts, sep) ==
  Concat([i \in 1..(2 * Len(parts) - 1) |->
            IF i % 2 = 1 THEN parts[(i + 1) \div 2] ELSE sep],
         1, 2 * Len(parts) - 1)

\* the character classes of the regular expressions
InClass(class, c) ==
  CASE class = "\\d"       -> IsDigit(c)
    [] class = "\\w"       -> IsWord(c)
    [] class = "[a-zA-Z]" -> IsAlpha(c)
    [] class = "[^\\s]"    -> ~IsSpace(c)
    [] class = "[^{}]"    -> c \notin {"{", "}"}
    [] class = "\\n"       -> c = "\n"

\* a greedy run: the number of consecutive characters of s from position i
\* that are in the class
RunLen(s, i, class) ==
  CHOOSE k \in 0..(Len(s) - i + 1) :
    /\ \A j \in i..(i + k - 1) : InClass(class, s[j])
    /\ (i + k > Len(s) \/ ~InClass(class, s[i + k]))

\* an absent (undefined) value of a string-valued field
Undefined == <<"undefined">>

(***************************************************************************)
(* stripRtf                                                                *)
(***************************************************************************)
RtfSignature == <<"{","\\","r","t","f">>

\* /\\par[d]?/g
ParMatchLen(s, i) ==
  IF HasAt(s, i, <<"\\","p","a","r">>)
    THEN (IF i + 4 <= Len(s) /\ s[i + 4] = "d" THEN 5 ELSE 4)
    ELSE 0

\* /\\'([0-9a-fA-F]{2})/g
HexMatchLen(s, i) ==
  IF /\ HasAt(s, i, <<"\\","'">>)
     /\ i + 3 <= Len(s)
     /\ IsHex(s[i + 2])
     /\ IsHex(s[i + 3])
    THEN 4 ELSE 0

HexDigits == <<"0","1","2","3","4","5","6","7","8","9","a","b","c","d","e","f">>
HexVal(c) ==
  LET l == IF c \in UpperSet THEN ToLowerFn[c] ELSE c
  IN (CHOOSE i \in 1..16 : HexDigits[i] = l) - 1

\* parseInt(hex, 16) for two hexadecimal digits
parseIntHex(h) == 16 * HexVal(h[1]) + HexVal(h[2])

\* the printable ASCII characters, code 32 first (code 96, the grave accent,
\* cannot be written in a TLA+ string and is one of the other characters)
Ascii == <<" ","!","\"","#","$","%","&","'","(",")","*","+",",","-",".","/",
           "0","1","2","3","4","5","6","7","8","9",":",";","<","=",">","?",
           "@","A","B","C","D","E","F","G","H","I","J","K","L","M","N","O",
           "P","Q","R","S","T","U","V","W","X","Y","Z","[","\\","]","^","_",
           OtherChar,"a","b","c","d","e","f","g","h","i","j","k","l","m","n","o",
           "p","q","r","s","t","u","v","w","x","y","z","{","|","}","~">>

\* String.fromCharCode for a code below 256
fromCharCode(code) ==
  IF code >= 32 /\ code <= 126 THEN Ascii[code - 31]
  ELSE IF code = 9 THEN "\t"
  ELSE IF code = 10 THEN "\n"
  ELSE IF code = 12 THEN "\f"
  ELSE IF code = 13 THEN "\r"
  ELSE IF code \in {11, 160} THEN OtherSpace
  ELSE OtherChar

\* /\{\\\*?[^{}]*\}/g : "{", a backslash, then up to the next brace, which
\* has to be "}" (the optional "*" is not a brace, so it changes nothing)
GroupMatchLen(s, i) ==
  IF HasAt(s, i, <<"{","\\">>)
    THEN LET k == RunLen(s, i + 2, "[^{}]")
         IN IF i + 2 + k <= Len(s) /\ s[i + 2 + k] = "}" THEN k + 3 ELSE 0
    ELSE 0

\* /\\[a-zA-Z]+\d* ?/g
CtrlMatchLen(s, i) ==
  IF i + 1 <= Len(s) /\ s[i] = "\\" /\ IsAlpha(s[i + 1])
    THEN LET a == RunLen(s, i + 1, "[a-zA-Z]")
             d == RunLen(s, i + 1 + a, "\\d")
             e == i + 1 + a + d
         IN 1 + a + d + (IF e <= Len(s) /\ s[e] = " " THEN 1 ELSE 0)
    ELSE 0

\* /[{}]/g
BraceMatchLen(s, i) == IF s[i] \in {"{", "}"} THEN 1 ELSE 0

\* /\n{3,}/g
NewlinesMatchLen(s, i) ==
  LET k == RunLen(s, i, "\\n") IN IF k >= 3 THEN k ELSE 0

(***************************************************************************)
(* String.prototype.replace with a global regular expression: matches are  *)
(* taken leftmost first and do not overlap.  MatchLen(re, s, i) is the     *)
(* length of the match of expression re that starts at i (0: no match      *)
(* there; no expression of stripRtf matches the empty string) and          *)
(* Rep(re, s, i, n) is what replaces it.                                   *)
(***************************************************************************)
MatchLen(re, s, i) ==
  CASE re = "par"      -> ParMatchLen(s, i)
    [] re = "hex"      -> HexMatchLen(s, i)
    [] re = "group"    -> GroupMatchLen(s, i)
    [] re = "ctrl"     -> CtrlMatchLen(s, i)
    [] re = "brace"    -> BraceMatchLen(s, i)
    [] re = "newlines" -> NewlinesMatchLen(s, i)

Rep(re, s, i, n) ==
  CASE re = "par"      -> <<"\n">>
    [] re = "hex"      -> <<fromCharCode(parseIntHex(SubSeq(s, i + 2, i + 3)))>>
    [] re = "newlines" -> <<"\n","\n">>
    [] OTHER           -> <<>>

RECURSIVE ReplaceFrom(_, _, _)
\* the replacement for the match at p (0: no match left) and what follows
ReplaceAt(re, s, from, p) ==
  IF p = 0 THEN SubSeq(s, from, Len(s))
  ELSE SubSeq(s, from, p - 1) \o Rep(re, s, p, MatchLen(re, s, p))
         \o ReplaceFrom(re, s, p + MatchLen(re, s, p))

\* the position of the leftmost match at or after from, 0 when there is none
FirstMatch(re, s, from) ==
  IF \E i \in from..Len(s) : MatchLen(re, s, i) > 0
    THEN MinIn({i \in from..Len(s) : MatchLen(re, s, i) > 0}, from, Len(s))
    ELSE 0

ReplaceFrom(re, s, from) == ReplaceAt(re, s, from, FirstMatch(re, s, from))

replace(s, re) == ReplaceFrom(re, s, 1)

stripRtf(input) ==
  LET trimmed == trim(input)
  IN IF ~startsWith(trimmed, RtfSignature) THEN input
     ELSE LET a == replace(trimmed, "par")
              b == replace(a, "hex")
              c == replace(b, "group")
              d == replace(c, "ctrl")
              e == replace(d, "brace")
              f == replace(e, "newlines")
          IN trim(f)

(***************************************************************************)
(* pickMostCommon: counts is a Map, iterated in insertion order, so the    *)
(* keys are the distinct values in order of first occurrence               *)
(***************************************************************************)
CountOf(values, v) == Cardinality({i \in 1..Len(values) : values[i] = v})

\* the keys of the Map: positions of first occurrences, in order
MapKeys(values) ==
  LET firsts == {i \in 1..Len(values) :
                   \A j \in 1..(i - 1) : values[j] # values[i]}
      order  == SortedSeq(firsts, 1, Len(values))
  IN [k \in 1..Len(order) |-> values[order[k]]]

\* BestLoop with >= where the code has >: among the values with the
\* highest count the one inserted last wins
RECURSIVE BestLoopLastWins(_, _, _, _, _)
BestLoopLastWins(values, keys, lo, hi, st) ==
  IF lo > hi THEN st
  ELSE IF lo = hi
    THEN (IF CountOf(values, keys[lo]) >= st.bestCount
            THEN [best |-> keys[lo], bestCount |-> CountOf(values, keys[lo])]
            ELSE st)
  ELSE LET mid == (lo + hi) \div 2
       IN BestLoopLastWins(values, keys, mid + 1, hi,
                           BestLoopLastWins(values, keys, lo, mid, st))

\* the for loop over counts.entries(), run on keys[lo..hi] from state st
RECURSIVE BestLoop(_, _, _, _, _)
BestLoop(values, keys, lo, hi, st) ==
  IF lo > hi THEN st
  ELSE IF lo = hi
    THEN (IF CountOf(values, keys[lo]) > st.bestCount
            THEN [best |-> keys[lo], bestCount |-> CountOf(values, keys[lo])]
            ELSE st)
  ELSE LET mid == (lo + hi) \div 2
       IN BestLoop(values, keys, mid + 1, hi,
                   BestLoop(values, keys, lo, mid, st))

\* return best || fallback
BestOr(st, fallback) == IF st.best # <<>> THEN st.best ELSE fallback

pickMostCommon(values, fallback) ==
  IF Len(values) = 0 THEN fallback
  ELSE BestOr(BestLoop(values, MapKeys(values), 1, Len(MapKeys(values)),
                       [best |-> values[1], bestCount |-> 0]),
              fallback)

(***************************************************************************)
(* safeIsoFromLine:                                                        *)
(*   /\d{4}-\d{2}-\d{2}T\d{2}:\d{2}:\d{2}(?:\.\d+)?Z/                      *)
(***************************************************************************)
\* the fixed part of the expression, "d" standing for \d
IsoTemplate == <<"d","d","d","d","-","d","d","-","d","d","T",
                 "d","d",":","d","d",":","d","d">>

\* the length of the match that starts at i, 0 when there is none
IsoMatchLen(s, i) ==
  IF /\ i + Len(IsoTemplate) - 1 <= Len(s)
     /\ \A j \in 1..Len(IsoTemplate) :
          IF IsoTemplate[j] = "d" THEN IsDigit(s[i + j - 1])
                                  ELSE s[i + j - 1] = IsoTemplate[j]
    THEN LET e == i + Len(IsoTemplate)
             d == IF e <= Len(s) /\ s[e] = "." THEN RunLen(s, e + 1, "\\d")
                                               ELSE 0
         IN IF d > 0 /\ e + d + 1 <= Len(s) /\ s[e + d + 1] = "Z"
              THEN Len(IsoTemplate) + d + 2
            ELSE IF e <= Len(s) /\ s[e] = "Z" THEN Len(IsoTemplate) + 1
            ELSE 0
    ELSE 0

\* IsoAt with the line itself where there is no match
IsoAtOrLine(line, p) ==
  IF p = 0 THEN line ELSE SubSeq(line, p, p + IsoMatchLen(line, p) - 1)

\* the match that starts at p, undefined when p = 0
IsoAt(line, p) ==
  IF p = 0 THEN Undefined ELSE SubSeq(line, p, p + IsoMatchLen(line, p) - 1)

safeIsoFromLine(line) ==
  IsoAt(line,
        IF \E i \in 1..Len(line) : IsoMatchLen(line, i) > 0
          THEN MinIn({i \in 1..Len(line) : IsoMatchLen(line, i) > 0},
                     1, Len(line))
          ELSE 0)

(***************************************************************************)
(* parseKeyVals: /(\w+)=(".*?"|[^\s]+)/g run with exec until it fails.     *)
(* kv is modelled as the sequence of assignments kv[key] = val in order.   *)
(***************************************************************************)

NoKv == [len |-> 0, key |-> <<>>, val |-> <<>>]

\* ".*?" from the opening quote at v: the position of the first closing
\* quote, with no line terminator before it; 0 when there is none
QuotedEnd(s, v) ==
  IF /\ v <= Len(s)
     /\ s[v] = "\""
     /\ \E j \in (v + 1)..Len(s) :
          /\ s[j] = "\""
          /\ \A m \in (v + 1)..(j - 1) : s[m] # "\"" /\ ~IsLineTerminator(s[m])
    THEN MinIn({j \in (v + 1)..Len(s) : s[j] = "\""}, v + 1, Len(s))
    ELSE 0

\* the value at v after key s[i..i+k-1] and "=": the quoted form when it
\* closes (at closing), else [^\s]+, the run of r characters up to white space
KvValue(s, i, k, v, closing, r) ==
  IF closing > 0
    THEN [len |-> closing - i + 1, key |-> SubSeq(s, i, i + k - 1),
          val |-> SubSeq(s, v, closing)]
  ELSE IF r > 0
    THEN [len |-> k + 1 + r, key |-> SubSeq(s, i, i + k - 1),
          val |-> SubSeq(s, v, v + r - 1)]
  ELSE NoKv

\* after \w+ has taken the run of k word characters from i (a shorter key
\* would not be followed by "=")
KvAfterKey(s, i, k) ==
  IF ~(i + k <= Len(s) /\ s[i + k] = "=") THEN NoKv
  ELSE KvValue(s, i, k, i + k + 1, QuotedEnd(s, i + k + 1),
               RunLen(s, i + k + 1, "[^\\s]"))

\* the match that starts at i: [len, key, val], len = 0 when there is none
KvMatch(s, i) ==
  IF i > Len(s) \/ ~IsWord(s[i]) THEN NoKv
  ELSE KvAfterKey(s, i, RunLen(s, i, "\\w"))

Quote == <<"\"">>

\* if (val.startsWith('"') && val.endsWith('"')) val = val.slice(1, -1)
Unquote(val) ==
  IF startsWith(val, Quote) /\ endsWith(val, Quote)
    THEN SubSeq(val, 2, Len(val) - 1) ELSE val

RECURSIVE KvLoop(_, _, _)
\* kv[key] = val for the match m at p, then the next exec
KvAssign(line, kv, p, m) ==
  KvLoop(line, p + m.len, Append(kv, [key |-> m.key, val |-> Unquote(m.val)]))

\* the while loop: re.exec from lastIndex = from - 1
KvLoop(line, from, kv) ==
  IF \E i \in from..Len(line) : KvMatch(line, i).len > 0
    THEN KvAssign(line, kv,
                  MinIn({i \in from..Len(line) : KvMatch(line, i).len > 0},
                        from, Len(line)),
                  KvMatch(line,
                          MinIn({i \in from..Len(line) : KvMatch(line, i).len > 0},
                                from, Len(line))))
    ELSE kv

parseKeyVals(line) == KvLoop(line, 1, <<>>)

\* kv[key]: the last assignment to key, undefined when there is none
KvGet(kv, key) ==
  LET at == {i \in 1..Len(kv) : kv[i].key = key}
  IN IF at = {} THEN Undefined
     ELSE kv[CHOOSE i \in at : \A j \in at : j <= i].val

(***************************************************************************)
(* JavaScript values.  A finite number is kept in tenths (fixed point, one *)
(* decimal digit): every number the two routes compute or compare is a     *)
(* count or a percentage with one decimal.                                 *)
(***************************************************************************)
\* tenths per unit
Scale == 10

JsNumber(tenths) == [t |-> "number", n |-> tenths, s |-> <<>>]
JsInt(i)         == JsNumber(Scale * i)
JsNaN            == [t |-> "nan", n |-> 0, s |-> <<>>]
JsInfinity       == [t |-> "infinity", n |-> 0, s |-> <<>>]
JsString(str)    == [t |-> "string", n |-> 0, s |-> str]
JsUndefined      == [t |-> "undefined", n |-> 0, s |-> <<>>]
JsNull           == [t |-> "null", n |-> 0, s |-> <<>>]
JsBoolean(b)     == [t |-> "boolean", n |-> IF b THEN 1 ELSE 0, s |-> <<>>]

\* typeof v === "number"
IsNumberType(v) == v.t \in {"number", "nan", "infinity"}

\* the value of a string of decimal digits
RECURSIVE DigitsVal(_)
DigitsVal(ds) ==
  IF Len(ds) = 0 THEN 0
  ELSE 10 * DigitsVal(SubSeq(ds, 1, Len(ds) - 1))
         + (CHOOSE i \in 1..10 : DigitSeq[i] = ds[Len(ds)]) - 1

\* the decimal digits of a natural number
RECURSIVE NatToString(_)
NatToString(n) ==
  IF n < 10 THEN <<DigitSeq[n + 1]>>
  ELSE Append(NatToString(n \div 10), DigitSeq[(n % 10) + 1])

\* Number.prototype.toString of a finite number held in tenths
NumberToString(tenths) ==
  LET a == IF tenths < 0 THEN -tenths ELSE tenths
  IN (IF tenths < 0 THEN <<"-">> ELSE <<>>)
       \o NatToString(a \div Scale)
       \o (IF a % Scale = 0 THEN <<>> ELSE <<".">> \o NatToString(a % Scale))

\* Number(string): white space is stripped, the empty string is 0, a decimal
\* literal (sign, digits, fraction) is its value, anything else is NaN.
\* The strings of this model carry at most one fraction digit; exponent,
\* hexadecimal and "Infinity" literals do not occur in them.
\* the value in tenths of digits.fraction, ip the length of the digits
DecimalTenths(body, ip) ==
  Scale * DigitsVal(SubSeq(body, 1, ip))
    + (IF ip + 2 <= Len(body) THEN DigitsVal(SubSeq(body, ip + 2, ip + 2)) ELSE 0)

\* an unsigned decimal literal: digits, then possibly "." and digits, with
\* a digit somewhere; ip is the length of the leading run of digits
IsDecimal(body, ip) ==
  /\ \/ ip = Len(body)
     \/ /\ body[ip + 1] = "."
        /\ \A j \in (ip + 2)..Len(body) : IsDigit(body[j])
  /\ \E j \in 1..Len(body) : IsDigit(body[j])

UnsignedToNumber(body, negative) ==
  IF IsDecimal(body, RunLen(body, 1, "\\d"))
    THEN JsNumber((IF negative THEN -1 ELSE 1)
                    * DecimalTenths(body, RunLen(body, 1, "\\d")))
    ELSE JsNaN

TrimmedToNumber(t0) ==
  IF Len(t0) = 0 THEN JsNumber(0)
  ELSE IF t0[1] \in {"+", "-"}
    THEN UnsignedToNumber(SubSeq(t0, 2, Len(t0)), t0[1] = "-")
  ELSE UnsignedToNumber(t0, FALSE)

StringToNumber(str) == TrimmedToNumber(trim(str))

\* Number(v)
ToNumber(v) ==
  CASE IsNumberType(v)   -> v
    [] v.t = "string"    -> StringToNumber(v.s)
    [] v.t = "undefined" -> JsNaN
    [] v.t = "null"      -> JsNumber(0)
    [] v.t = "boolean"   -> JsInt(v.n)

\* String(v)
StringOf(v) ==
  CASE v.t = "string"    -> v.s
    [] v.t = "number"    -> NumberToString(v.n)
    [] v.t = "nan"       -> <<"N","a","N">>
    [] v.t = "infinity"  -> <<"I","n","f","i","n","i","t","y">>
    [] v.t = "undefined" -> <<"u","n","d","e","f","i","n","e","d">>
    [] v.t = "null"      -> <<"n","u","l","l">>
    [] v.t = "boolean"   -> IF v.n = 1 THEN <<"t","r","u","e">>
                                       ELSE <<"f","a","l","s","e">>

\* a ?? b
Coalesce(a, b) == IF a.t \in {"undefined", "null"} THEN b ELSE a

(***************************************************************************)
(* The ingest route                                                        *)
(***************************************************************************)
\* raw.split(/\r?\n/): the pieces between line feeds, a carriage return
\* just before the line feed belonging to the separator
split(raw) ==
  LET nls == SortedSeq({i \in 1..Len(raw) : raw[i] = "\n"}, 1, Len(raw))
  IN [k \in 1..(Len(nls) + 1) |->
        LET start == IF k = 1 THEN 1 ELSE nls[k - 1] + 1
            stop  == IF k <= Len(nls) THEN nls[k] - 1 ELSE Len(raw)
            end   == IF k <= Len(nls) /\ stop >= start /\ raw[stop] = "\r"
                       THEN stop - 1 ELSE stop
        IN SubSeq(raw, start, end)]

\* filter(Boolean) on strings
NonEmpty(l) == l # <<>>

\* LinesOf without filter(Boolean)
LinesOfUnfiltered(raw) ==
  Force([k \in 1..Len(split(raw)) |-> trim(split(raw)[k])])

\* raw.split(/\r?\n/).map((l) => l.trim()).filter(Boolean)
LinesOf(raw) ==
  LET parts == split(raw)
  IN SelectSeq(Force([k \in 1..Len(parts) |-> trim(parts[k])]), NonEmpty)

\* the state of the for loop over lines: the arrays, the counters and the
\* patterns Map (its entries in insertion order)
LoopStart ==
  [services |-> <<>>, regions |-> <<>>, timestamps |-> <<>>,
   errors |-> 0, warns |-> 0, infos |-> 0, timeouts |-> 0, http5xx |-> 0,
   patterns |-> <<>>]

\* patterns.set(name, (patterns.get(name) ?? 0) + 1)
Bump(patterns, name) ==
  IF \E i \in 1..Len(patterns) : patterns[i].pattern = name
    THEN [i \in 1..Len(patterns) |->
            IF patterns[i].pattern = name
              THEN [pattern |-> name, count |-> patterns[i].count + 1]
              ELSE patterns[i]]
    ELSE Append(patterns, [pattern |-> name, count |-> 1])

BumpIf(cond, patterns, name) == IF cond THEN Bump(patterns, name) ELSE patterns

KeyService    == <<"s","e","r","v","i","c","e">>
KeyRegion     == <<"r","e","g","i","o","n">>
KeyHttpStatus == <<"h","t","t","p","S","t","a","t","u","s">>
KeyStatus     == <<"s","t","a","t","u","s">>

MarkError == <<" ","E","R","R","O","R"," ">>
MarkWarn  == <<" ","W","A","R","N"," ">>
MarkInfo  == <<" ","I","N","F","O"," ">>
MarkTimeoutWord == <<" ","T","I","M","E","O","U","T"," ">>
MarkTimeout == <<"T","I","M","E","O","U","T">>
MarkTokenValidation == <<"T","O","K","E","N","_","V","A","L","I","D","A","T","I","O","N">>
MarkUpstreamTimeout == <<"U","P","S","T","R","E","A","M"," ","T","I","M","E","O","U","T">>
MarkDownstream      == <<"D","O","W","N","S","T","R","E","A","M">>
MarkCircuitBreaker  == <<"C","I","R","C","U","I","T"," ","B","R","E","A","K","E","R">>
MarkNoScaleEvent    == <<"N","O"," ","S","C","A","L","E"," ","E","V","E","N","T">>
MarkMaxReached      == <<"M","A","X"," ","R","E","A","C","H","E","D">>

\* lowest and highest status counted as HTTP 5xx
Http5xxLow  == 500
Http5xxHigh == 599

\* a string is truthy when it is defined and not empty
Truthy(str) == str # Undefined /\ str # <<>>

\* StatusField with the two keys looked up in the opposite order
StatusFieldStatusFirst(kv) ==
  IF KvGet(kv, KeyStatus) # Undefined THEN KvGet(kv, KeyStatus)
  ELSE IF KvGet(kv, KeyHttpStatus) # Undefined THEN KvGet(kv, KeyHttpStatus)
  ELSE <<>>

\* kv.httpStatus ?? kv.status ?? ""
StatusField(kv) ==
  IF KvGet(kv, KeyHttpStatus) # Undefined THEN KvGet(kv, KeyHttpStatus)
  ELSE IF KvGet(kv, KeyStatus) # Undefined THEN KvGet(kv, KeyStatus)
  ELSE <<>>

\* the updates of one iteration, given the values it computed first
LoopUpdate(acc, upper, svc, reg, ts, hsNum) ==
  [services   |-> IF Truthy(svc) THEN Append(acc.services, svc)
                                 ELSE acc.services,
   regions    |-> IF Truthy(reg) THEN Append(acc.regions, reg)
                                 ELSE acc.regions,
   timestamps |-> IF Truthy(ts) THEN Append(acc.timestamps, ts)
                                ELSE acc.timestamps,
   errors     |-> acc.errors + (IF includes(upper, MarkError) THEN 1 ELSE 0),
   warns      |-> acc.warns +
                    (IF ~includes(upper, MarkError) /\ includes(upper, MarkWarn)
                       THEN 1 ELSE 0),
   infos      |-> acc.infos +
                    (IF /\ ~includes(upper, MarkError)
                        /\ ~includes(upper, MarkWarn)
                        /\ includes(upper, MarkInfo)
                       THEN 1 ELSE 0),
   timeouts   |-> acc.timeouts + (IF includes(upper, MarkTimeout) THEN 1 ELSE 0),
   http5xx    |-> acc.http5xx +
                    (IF /\ hsNum.t = "number"
                        /\ hsNum.n >= Scale * Http5xxLow
                        /\ hsNum.n <= Scale * Http5xxHigh
                       THEN 1 ELSE 0),
   patterns   |->
     BumpIf(includes(upper, MarkNoScaleEvent) \/ includes(upper, MarkMaxReached),
       BumpIf(includes(upper, MarkCircuitBreaker),
         BumpIf(includes(upper, MarkDownstream),
           BumpIf(includes(upper, MarkUpstreamTimeout),
             BumpIf(includes(upper, MarkTokenValidation), acc.patterns,
                    "token_validation_slow"),
             "upstream_timeout"),
           "downstream_instability"),
         "circuit_breaker_open"),
       "autoscaler_max_reached")]

\* LoopWithKv with the autoscaler tag counted once for each of its two
\* phrases
LoopWithKvEachPhrase(acc, line, kv) ==
  [LoopUpdate(acc, toUpperCase(line), KvGet(kv, KeyService),
              KvGet(kv, KeyRegion), safeIsoFromLine(line),
              StringToNumber(StatusField(kv)))
     EXCEPT !.patterns =
       BumpIf(/\ includes(toUpperCase(line), MarkNoScaleEvent)
              /\ includes(toUpperCase(line), MarkMaxReached),
              @, "autoscaler_max_reached")]

\* one iteration of the for loop over lines, kv being parseKeyVals(line)
\* LoopWithKv with the three level tests made one after the other, not as
\* an else-if chain
LoopWithKvEachLevel(acc, line, kv) ==
  [LoopUpdate(acc, toUpperCase(line), KvGet(kv, KeyService),
              KvGet(kv, KeyRegion), safeIsoFromLine(line),
              StringToNumber(StatusField(kv)))
     EXCEPT !.warns = acc.warns +
                        (IF includes(toUpperCase(line), MarkWarn) THEN 1 ELSE 0),
            !.infos = acc.infos +
                        (IF includes(toUpperCase(line), MarkInfo) THEN 1 ELSE 0)]

LoopWithKv(acc, line, kv) ==
  LoopUpdate(acc, toUpperCase(line), KvGet(kv, KeyService), KvGet(kv, KeyRegion),
             safeIsoFromLine(line), StringToNumber(StatusField(kv)))

LoopBody(acc, line) == LoopWithKv(acc, line, parseKeyVals(line))

\* the for loop over lines[lo..hi] from state acc.  The iterations run in
\* order; the range is halved and the state after the first half is
\* computed before the second half starts, to keep the evaluation shallow
RECURSIVE Loop(_, _, _, _)
Loop(lines, lo, hi, acc) ==
  IF lo > hi THEN acc
  ELSE IF lo = hi THEN LoopBody(acc, lines[lo])
  ELSE CHOOSE after \in
         {Loop(lines, (lo + hi) \div 2 + 1, hi, half) :
            half \in {Loop(lines, lo, (lo + hi) \div 2, acc)}} : TRUE

\* The arithmetic of JavaScript numbers (IEEE 754 binary64) as far as
\* errorRatePct needs it.  A positive double is [hi, mid, lo, exp]: the value
\* (hi * LimbBase^2 + mid * LimbBase + lo) / 2^(52 + exp), the significand
\* having 53 bits, in three limbs
LimbBase == 2 ^ 18

\* the limbs with the carries taken up
Carry(hi, mid, lo, exp) ==
  [hi  |-> hi + (mid + lo \div LimbBase) \div LimbBase,
   mid |-> (mid + lo \div LimbBase) % LimbBase,
   lo  |-> lo % LimbBase,
   exp |-> exp]

\* round to nearest, ties to even: the change to a significand whose last
\* unit is unit, when rest of it (out of whole) lies below that unit
RoundToEven(last, unit, rest, whole) ==
  IF 2 * rest > whole \/ (2 * rest = whole /\ (last \div unit) % 2 = 1)
    THEN unit ELSE 0

\* errors / logLines for 0 < errors <= logLines < 2^10, where
\* logLines <= x = errors * 2^exp < 2 * logLines: the quotient by long
\* division in limbs, rounded in its 53rd bit by the remainder
DivideScaled(x, n, exp) ==
  Carry((x * 2 ^ 16) \div n,
        (((x * 2 ^ 16) % n) * LimbBase) \div n,
        (((((x * 2 ^ 16) % n) * LimbBase) % n) * LimbBase) \div n
          + RoundToEven((((((x * 2 ^ 16) % n) * LimbBase) % n) * LimbBase) \div n,
                        1,
                        (((((x * 2 ^ 16) % n) * LimbBase) % n) * LimbBase) % n,
                        n),
        exp)

Divide(errors, logLines) ==
  DivideScaled(errors * 2 ^ (CHOOSE c \in 0..10 :
                               /\ errors * 2 ^ c >= logLines
                               /\ errors * 2 ^ c < 2 * logLines),
               logLines,
               CHOOSE c \in 0..10 : /\ errors * 2 ^ c >= logLines
                                    /\ errors * 2 ^ c < 2 * logLines)

\* the exact product p of a double and 1000 < 2^10 has 62 or 63 bits:
\* rounded to 53 bits, 9 or 10 low bits (drop = 2^9 or 2^10) go
RoundProduct(p, drop) ==
  Carry(p.hi, p.mid,
        (p.lo - (p.lo % drop)) + RoundToEven(p.lo, drop, p.lo % drop, drop),
        p.exp)

Times1000(d) ==
  RoundProduct(Carry(1000 * d.hi, 1000 * d.mid, 1000 * d.lo, d.exp),
               IF Carry(1000 * d.hi, 1000 * d.mid, 1000 * d.lo, d.exp).hi >= 2 ^ 26
                 THEN 2 ^ 10 ELSE 2 ^ 9)

\* Math.round(d) = floor(d + 0.5); a half is 2^(15 + exp) units of hi, and
\* the limbs below hi are less than one unit of it
MathRound(d) == (d.hi + 2 ^ (15 + d.exp)) \div 2 ^ (16 + d.exp)

\* Math.round((errors / logLines) * 1000), 0 <= errors <= logLines < 2^10
RoundedPermille(errors, logLines) ==
  IF errors = 0 THEN 0 ELSE MathRound(Times1000(Divide(errors, logLines)))

\* errorRatePct as a fraction of 1 where the code has a percentage
errorRateFraction(errors, logLines) ==
  IF logLines > 0 THEN (Scale * errors) \div logLines ELSE 0

\* errorRatePct without the division by 10 after rounding
errorRatePermille(errors, logLines) ==
  IF logLines > 0 THEN Scale * RoundedPermille(errors, logLines) ELSE 0

\* errorRatePct, in tenths of a percent
errorRatePct(errors, logLines) ==
  IF logLines > 0 THEN RoundedPermille(errors, logLines) ELSE 0

\* SortByCountDesc by a sort that reverses entries of equal count
SortByCountTiesReversed(entries) ==
  LET before(i) == {j \in 1..Len(entries) :
                      \/ entries[j].count > entries[i].count
                      \/ entries[j].count = entries[i].count /\ j > i}
  IN [k \in 1..Len(entries) |->
        entries[CHOOSE i \in 1..Len(entries) : Cardinality(before(i)) = k - 1]]

\* entries.sort((a, b) => b.count - a.count): a stable sort, so an entry
\* comes after those with a greater count and those with the same count
\* that were before it
SortByCountDesc(entries) ==
  LET before(i) == {j \in 1..Len(entries) :
                      \/ entries[j].count > entries[i].count
                      \/ entries[j].count = entries[i].count /\ j < i}
  IN [k \in 1..Len(entries) |->
        entries[CHOOSE i \in 1..Len(entries) : Cardinality(before(i)) = k - 1]]

\* most entries kept in topPatterns
TopPatternsMax == 6
\* most lines kept in sampleLines
SampleLinesMax == 10

Min(a, b) == IF a < b THEN a ELSE b

\* Array.prototype.slice(0, n)
slice0(arr, n) == SubSeq(arr, 1, Min(n, Len(arr)))

topPatternsOf(patterns) == slice0(SortByCountDesc(patterns), TopPatternsMax)

\* sampleLinesOf without the cap
sampleLinesOfAll(lines) == slice0(lines, Len(lines))

\* lines.slice(0, Math.min(10, lines.length))
sampleLinesOf(lines) == slice0(lines, Min(SampleLinesMax, Len(lines)))

FallbackService == <<"B","T","P"," ","S","e","r","v","i","c","e"," ",
                     "(","u","n","k","n","o","w","n",")">>
FallbackRegion  == <<"u","n","k","n","o","w","n">>
NoTextProvided  == <<"N","o"," ","t","e","x","t"," ","p","r","o","v","i","d","e","d">>

\* a request body as req.json().catch(() => null) yields it: null, or a
\* value whose property text is body.text
ObjectBody(text) == [t |-> "object", text |-> text]

\* String(body?.text ?? "")
TextOf(body) ==
  IF body.t = "null" THEN <<>>
  ELSE StringOf(Coalesce(body.text, JsString(<<>>)))

\* the incident record, acc being the state the loop over lines ends in
IncidentFrom(lines, acc) ==
  [serviceGuess |-> pickMostCommon(acc.services, FallbackService),
   regionGuess  |-> pickMostCommon(acc.regions, FallbackRegion),
   timeWindow   |->
     [start |-> IF Len(acc.timestamps) > 0 THEN acc.timestamps[1] ELSE Undefined,
      end   |-> IF Len(acc.timestamps) > 0
                  THEN acc.timestamps[Len(acc.timestamps)] ELSE Undefined],
   topPatterns  |-> topPatternsOf(acc.patterns),
   sampleLines  |-> sampleLinesOf(lines),
   derivedSignals |->
     [log_lines |-> Len(lines),
      errors    |-> acc.errors,
      warns     |-> acc.warns,
      infos     |-> acc.infos,
      timeouts  |-> acc.timeouts,
      http_5xx  |-> acc.http5xx,
      error_rate_pct |-> errorRatePct(acc.errors, Len(lines))]]

\* the incident record built from the trimmed, non-empty lines
\* IncidentOf with each timestamp put at the front of the array, so that
\* the array ends up in the opposite order
IncidentOfNewestFirst(lines) ==
  IncidentFrom(lines,
    [Loop(lines, 1, Len(lines), LoopStart) EXCEPT
       !.timestamps = [k \in 1..Len(@) |-> @[Len(@) + 1 - k]]])

IncidentOf(lines) == IncidentFrom(lines, Loop(lines, 1, Len(lines), LoopStart))

\* what the route answers: status, error (absent on success) and incident
\* (a sequence holding the record, empty when the answer has none)
IngestReject(status, message) ==
  [status |-> status, error |-> message, incident |-> <<>>]

\* RawOf without the trim after stripRtf
RawOfUntrimmed(body) == stripRtf(TextOf(body))

\* the trimmed text the route works on
RawOf(body) == trim(stripRtf(TextOf(body)))

\* IngestRaw without the check of raw
IngestRawUnchecked(raw) ==
  [status |-> 200, error |-> Undefined,
   incident |-> <<IncidentOf(LinesOf(raw))>>]

\* the route's answer for the trimmed text raw
IngestRaw(raw) ==
  IF raw = <<>> THEN IngestReject(400, NoTextProvided)
  ELSE [status |-> 200, error |-> Undefined,
        incident |-> <<IncidentOf(LinesOf(raw))>>]

\* POST /api/ingest
IngestHandler(body) == IngestRaw(RawOf(body))

(***************************************************************************)
(* The analyze route                                                       *)
(***************************************************************************)
NoLogsProvided ==
  <<"N","o"," ","l","o","g","s"," ","p","r","o","v","i","d","e","d">>
ClauseTokenSlow ==
  <<"a","u","t","h","e","n","t","i","c","a","t","i","o","n"," ","t","o","k",
    "e","n"," ","v","a","l","i","d","a","t","i","o","n"," ","l","a","t","e",
    "n","c","y"," ","(","X","S","U","A","A","/","I","d","P"," ","p","a","t",
    "h",")">>
ClauseUpstreamTimeout ==
  <<"u","p","s","t","r","e","a","m"," ","d","e","p","e","n","d","e","n","c",
    "y"," ","t","i","m","e","o","u","t","s"," ","a","m","p","l","i","f","y",
    "i","n","g"," ","e","n","d","-","u","s","e","r"," ","a","u","t","h"," ",
    "l","a","t","e","n","c","y">>
ClauseCircuitBreaker ==
  <<"c","i","r","c","u","i","t"," ","b","r","e","a","k","e","r"," ","a","c",
    "t","i","v","a","t","i","o","n"," ","i","n","d","i","c","a","t","e","s",
    " ","r","e","p","e","a","t","e","d"," ","d","o","w","n","s","t","r","e",
    "a","m"," ","f","a","i","l","u","r","e","s">>
ClauseAutoscalerMax ==
  <<"c","a","p","a","c","i","t","y"," ","c","e","i","l","i","n","g"," ","r",
    "e","a","c","h","e","d"," ","(","a","u","t","o","s","c","a","l","e","r",
    " ","m","a","x",")"," ","d","u","r","i","n","g"," ","d","e","m","a","n",
    "d"," ","s","p","i","k","e">>
RootCausePrefix ==
  <<"M","o","s","t"," ","l","i","k","e","l","y"," ","d","r","i","v","e","r",
    ":"," ">>
RootCauseFallback ==
  <<"M","o","s","t"," ","l","i","k","e","l","y"," ","d","r","i","v","e","r",
    ":"," ","d","e","p","e","n","d","e","n","c","y"," ","l","a","t","e","n",
    "c","y"," ","a","n","d"," ","i","n","t","e","r","m","i","t","t","e","n",
    "t"," ","g","a","t","e","w","a","y"," ","e","r","r","o","r","s"," ","u",
    "n","d","e","r"," ","l","o","a","d",".">>
ClauseSeparator ==
  <<";"," ">>

actions ==
  <<"Confirm blast radius (tenant(s), routes, and time window) and set incident bridge + owner.",
    "Correlate spikes with recent deployments/config changes and dependency health in the same region.",
    "Add/validate SLOs: auth latency (p95), 5xx rate, and upstream timeout rate; alert on burn-rate thresholds.",
    "Raise or re-tune autoscaler limits and validate backpressure/timeouts to prevent cascading failure.",
    "Implement a short-term mitigation (fallback, cache, or retry policy) and a runbook for repeatability.">>

btpNextSteps ==
  <<"Enable/confirm central log and metric collection for the involved subaccount/space and export to a single dashboard.",
    "Create an SLO panel for Auth (XSUAA) latency and HTTP 5xx with alerting to the on-call channel.",
    "Add release correlation tags (app version, deployment id) to logs to speed MTTR.",
    "Define an incident runbook: triage checklist, escalation paths, rollback criteria, and comms template.",
    "Introduce cost guardrails (autoscaling + quota checks) to avoid overcorrecting with spend.">>

\* the signal names the route reads
SignalKeys == {"log_lines", "errors", "warns", "timeouts", "http_5xx",
               "error_rate_pct"}

\* a signals object without any of the keys (also body.signals ?? {})
NoSignals == [k \in SignalKeys |-> JsUndefined]

\* Number.isFinite(n) ? n : 0, the finite number in tenths
FiniteOrZero(n) == IF n.t = "number" THEN n.n ELSE 0

\* getNum: signals?.[key], passed through when a number, else Number(v),
\* and 0 unless finite
getNum(signals, key) ==
  FiniteOrZero(IF IsNumberType(signals[key]) THEN signals[key]
                                             ELSE ToNumber(signals[key]))

\* thresholds of the severity and confidence rules
SeverityHighCount     == 2
SeverityHighErrorRate == 3
SeverityMediumCount   == 1
ConfidenceHighLogs    == 6
ConfidenceHighCount   == 2
ConfidenceLowLogs     == 3

\* severityOf with > where the code has >= in the High rule
severityOfStrict(errors, timeouts, http5xx, errorRate) ==
  IF \/ http5xx > Scale * SeverityHighCount
     \/ timeouts > Scale * SeverityHighCount
     \/ errorRate > Scale * SeverityHighErrorRate
    THEN "High"
  ELSE IF \/ http5xx >= Scale * SeverityMediumCount
          \/ timeouts >= Scale * SeverityMediumCount
          \/ errors >= Scale * SeverityMediumCount
    THEN "Medium"
  ELSE "Low"

\* severityOf with the Medium rule looked at before the High rule
severityOfMediumFirst(errors, timeouts, http5xx, errorRate) ==
  IF \/ http5xx >= Scale * SeverityMediumCount
     \/ timeouts >= Scale * SeverityMediumCount
     \/ errors >= Scale * SeverityMediumCount
    THEN "Medium"
  ELSE IF \/ http5xx >= Scale * SeverityHighCount
          \/ timeouts >= Scale * SeverityHighCount
          \/ errorRate >= Scale * SeverityHighErrorRate
    THEN "High"
  ELSE "Low"

\* the severity rule
severityOf(errors, timeouts, http5xx, errorRate) ==
  IF \/ http5xx >= Scale * SeverityHighCount
     \/ timeouts >= Scale * SeverityHighCount
     \/ errorRate >= Scale * SeverityHighErrorRate
    THEN "High"
  ELSE IF \/ http5xx >= Scale * SeverityMediumCount
          \/ timeouts >= Scale * SeverityMediumCount
          \/ errors >= Scale * SeverityMediumCount
    THEN "Medium"
  ELSE "Low"

\* confidenceOf with > where the code has >= on logs.length
confidenceOfStrict(nLogs, errors, timeouts, http5xx) ==
  IF nLogs < ConfidenceLowLogs THEN "Low"
  ELSE IF /\ nLogs > ConfidenceHighLogs
          /\ timeouts + http5xx + errors >= Scale * ConfidenceHighCount
    THEN "High"
  ELSE "Medium"

\* the confidence rule
confidenceOf(nLogs, errors, timeouts, http5xx) ==
  LET c1 == IF /\ nLogs >= ConfidenceHighLogs
               /\ timeouts + http5xx + errors >= Scale * ConfidenceHighCount
              THEN "High" ELSE "Medium"
  IN IF nLogs < ConfidenceLowLogs THEN "Low" ELSE c1

\* logs.some((l) => l.toLowerCase().includes(needle)): "true" or "false",
\* or "throw" when an entry that is no string is reached before a match
someIncludes(logs, needle) ==
  LET hits == {i \in 1..Len(logs) :
                 logs[i].t = "string" /\ includes(toLowerCase(logs[i].s), needle)}
      bad  == {i \in 1..Len(logs) : logs[i].t # "string"}
  IN IF \E b \in bad : \A h \in hits : b < h THEN "throw"
     ELSE IF hits # {} THEN "true"
     ELSE "false"

\* rootCauseOf with the clauses pushed in the opposite order
rootCauseOfReversed(hasTokenSlow, hasUpstreamTimeout, hasCircuitBreaker, hasAutoscalerMax) ==
  LET rootCauseParts ==
        (IF hasAutoscalerMax THEN <<ClauseAutoscalerMax>> ELSE <<>>)
        \o (IF hasCircuitBreaker THEN <<ClauseCircuitBreaker>> ELSE <<>>)
        \o (IF hasUpstreamTimeout THEN <<ClauseUpstreamTimeout>> ELSE <<>>)
        \o (IF hasTokenSlow THEN <<ClauseTokenSlow>> ELSE <<>>)
  IN IF Len(rootCauseParts) > 0
       THEN RootCausePrefix \o join(rootCauseParts, ClauseSeparator) \o <<".">>
       ELSE RootCauseFallback

rootCauseOf(hasTokenSlow, hasUpstreamTimeout, hasCircuitBreaker, hasAutoscalerMax) ==
  LET rootCauseParts ==
        (IF hasTokenSlow THEN <<ClauseTokenSlow>> ELSE <<>>)
        \o (IF hasUpstreamTimeout THEN <<ClauseUpstreamTimeout>> ELSE <<>>)
        \o (IF hasCircuitBreaker THEN <<ClauseCircuitBreaker>> ELSE <<>>)
        \o (IF hasAutoscalerMax THEN <<ClauseAutoscalerMax>> ELSE <<>>)
  IN IF Len(rootCauseParts) > 0
       THEN RootCausePrefix \o join(rootCauseParts, ClauseSeparator) \o <<".">>
       ELSE RootCauseFallback

signalHighlightsOf(signals, errors, warns, timeouts, http5xx, errorRate) ==
  <<<<"l","o","g"," ","l","i","n","e","s",":"," ">> \o NumberToString(getNum(signals, "log_lines")),
    <<"e","r","r","o","r","s",":"," ">> \o NumberToString(errors),
    <<"w","a","r","n","i","n","g","s",":"," ">> \o NumberToString(warns),
    <<"t","i","m","e","o","u","t","s",":"," ">> \o NumberToString(timeouts),
    <<"H","T","T","P"," ","5","x","x",":"," ">> \o NumberToString(http5xx),
    <<"e","r","r","o","r"," ","r","a","t","e",":"," ">> \o NumberToString(errorRate) \o <<"%">>>>

\* summaryOf with the text for Low whatever the severity
summaryOfFlat(severity) ==
  "Signals suggest minor anomalies; monitor closely and validate baseline thresholds."

summaryOf(severity) ==
  IF severity = "High" THEN "Signals show a material deviation from normal performance, including elevated timeouts and 5xx responses, likely impacting user authentication and downstream API reliability."
  ELSE IF severity = "Medium" THEN "Signals indicate intermittent degradation (timeouts/5xx) that could escalate under load and affect user-facing flows." ELSE "Signals suggest minor anomalies; monitor closely and validate baseline thresholds."

businessImpactOf(severity) ==
  IF severity = "High" THEN "High risk of SLA breach and customer-facing disruption (login failures / failed API calls), with potential revenue and reputational impact if not mitigated quickly."
  ELSE IF severity = "Medium" THEN "Moderate risk of incident escalation and partial customer impact; proactive remediation will reduce MTTR and avoid repeated occurrences." ELSE "Low immediate customer impact; use the event to harden detection and operational guardrails."

executiveOneLinerOf(severity) ==
  IF severity = "High" THEN "We are seeing elevated auth latency and 5xx errors consistent with dependency timeouts under load; containment and scaling guardrails are required immediately."
  ELSE IF severity = "Medium" THEN "Early indicators of reliability drift (timeouts/5xx); correlating with releases and tuning scaling/alerts will prevent escalation."
  ELSE "Minor anomalies detected; we will validate baselines and strengthen alerting to prevent future drift."

\* a request body of the analyze route.  t is "null" (no JSON, or null),
\* "falsy" (false, 0, "") or "object" (any other value; one that is no
\* object has no signals and no logs); logsIsArray is Array.isArray(body.logs),
\* and logs holds the entries of body.logs (also of one that is no array)
AnalyzeBody(t, scenario, service, region, signals, logsIsArray, logs) ==
  [t |-> t, scenario |-> scenario, service |-> service, region |-> region,
   signals |-> signals, logsIsArray |-> logsIsArray, logs |-> logs]

AnalyzeReject(status, message) ==
  [status |-> status, error |-> message, output |-> <<>>]

\* the output record, or the failure when a logs.some(...) has thrown: a
\* TypeError of l.toLowerCase() on a log entry that is no string, whose
\* message (the engine's text) stands as "TypeError"
AnalyzeOutput(signals, severity, confidence, errors, warns, timeouts, http5xx, errorRate, hasTokenSlow, hasUpstreamTimeout, hasCircuitBreaker, hasAutoscalerMax) ==
  IF "throw" \in {hasTokenSlow, hasUpstreamTimeout, hasCircuitBreaker,
                  hasAutoscalerMax}
    THEN AnalyzeReject(500, <<"T","y","p","e","E","r","r","o","r">>)
  ELSE
    [status |-> 200, error |-> Undefined,
     output |->
       <<[severity   |-> severity,
          confidence |-> confidence,
          summary    |-> summaryOf(severity),
          rootCause  |-> rootCauseOf(hasTokenSlow = "true",
                                     hasUpstreamTimeout = "true",
                                     hasCircuitBreaker = "true",
                                     hasAutoscalerMax = "true"),
          actions    |-> actions,
          businessImpact |-> businessImpactOf(severity),
          btpNextSteps   |-> btpNextSteps,
          signalHighlights |->
            signalHighlightsOf(signals, errors, warns, timeouts, http5xx,
                               errorRate),
          executiveOneLiner |-> executiveOneLinerOf(severity)]>>]

\* the route once the numbers are read from signals
AnalyzeNumbers(signals, logs, errors, warns, timeouts, http5xx, errorRate) ==
  AnalyzeOutput(signals,
                severityOf(errors, timeouts, http5xx, errorRate),
                confidenceOf(Len(logs), errors, timeouts, http5xx),
                errors, warns, timeouts, http5xx, errorRate,
                someIncludes(logs, <<"t","o","k","e","n","_","v","a","l","i","d","a","t","i","o","n">>),
                someIncludes(logs, <<"u","p","s","t","r","e","a","m"," ","t","i","m","e","o","u","t">>),
                someIncludes(logs, <<"c","i","r","c","u","i","t"," ","b","r","e","a","k","e","r">>),
                someIncludes(logs, <<"n","o"," ","s","c","a","l","e"," ","e","v","e","n","t">>))

\* AnalyzeLogs without the check of logs.length
AnalyzeLogsUnchecked(signals, logs) ==
  AnalyzeNumbers(signals, logs,
                 getNum(signals, "errors"), getNum(signals, "warns"),
                 getNum(signals, "timeouts"), getNum(signals, "http_5xx"),
                 getNum(signals, "error_rate_pct"))

\* the route once signals and logs are taken from the body
AnalyzeLogs(signals, logs) ==
  IF Len(logs) = 0 THEN AnalyzeReject(400, NoLogsProvided)
  ELSE AnalyzeNumbers(signals, logs,
                      getNum(signals, "errors"), getNum(signals, "warns"),
                      getNum(signals, "timeouts"), getNum(signals, "http_5xx"),
                      getNum(signals, "error_rate_pct"))

\* POST /api/analyze
AnalyzeHandler(body) ==
  IF body.t # "object"
    THEN AnalyzeReject(400, <<"N","o"," ","p","a","y","l","o","a","d"," ",
                              "p","r","o","v","i","d","e","d">>)
  ELSE AnalyzeLogs(body.signals, IF body.logsIsArray THEN body.logs ELSE <<>>)

(***************************************************************************)
(* The requests the clients send, drawn from bounded sets                  *)
(***************************************************************************)
\* most chunks in a text built from StructChunks
MaxChunks == 3
\* most lines in a text built from LogLines
MaxLines == 3
\* most lines in a numbered text
MaxLong == 12
\* lines of the large numbered text
BigLines == 400
\* greatest count given as a signal
MaxCount == 2
\* most entries in a logs array of filler lines
MaxLogs == 7
\* most entries in a logs array built from LogEntries
MaxEntries == 3

LineE2E1 ==
  <<"2","0","2","6","-","0","1","-","0","6","T","1","3",":","0","1",":","0",
    "2",".","1","1","4","Z"," ","s","e","r","v","i","c","e","=","\"","a",
    "u","t","h","\""," ","r","e","g","i","o","n","=","\"","e","u","1","0",
    "\""," ","E","R","R","O","R"," ","u","p","s","t","r","e","a","m"," ",
    "t","i","m","e","o","u","t">>
LineE2E2 ==
  <<"2","0","2","6","-","0","1","-","0","6","T","1","3",":","0","2",":","0",
    "0",".","0","0","0","Z"," ","s","e","r","v","i","c","e","=","\"","a",
    "u","t","h","\""," ","r","e","g","i","o","n","=","\"","e","u","1","0",
    "\""," ","h","t","t","p","S","t","a","t","u","s","=","5","0","3"," ",
    "c","i","r","c","u","i","t"," ","b","r","e","a","k","e","r"," ","o","p",
    "e","n">>
LineTokenWarn ==
  <<"s","e","r","v","i","c","e","=","p","a","y"," ","r","e","g","i","o","n",
    "=","u","s","1","0"," ","W","A","R","N"," ","t","o","k","e","n","_","v",
    "a","l","i","d","a","t","i","o","n"," ","s","l","o","w"," ","s","t","a",
    "t","u","s","=","5","0","0">>
LineAutoscaler ==
  <<"2","0","2","5","-","1","2","-","3","1","T","2","3",":","5","9",":","5",
    "9","Z"," ","x"," ","I","N","F","O"," ","n","o"," ","s","c","a","l","e",
    " ","e","v","e","n","t",","," ","m","a","x"," ","r","e","a","c","h","e",
    "d"," ","d","o","w","n","s","t","r","e","a","m">>
LineMixed ==
  <<"x"," ","E","R","R","O","R"," "," ","W","A","R","N"," ","c","i","r","c",
    "u","i","t"," ","b","r","e","a","k","e","r"," ","t","o","k","e","n","_",
    "v","a","l","i","d","a","t","i","o","n"," ","t","i","m","e","o","u",
    "t">>
LineOk ==
  <<"o","k">>
LineErrorAtStart ==
  <<"E","R","R","O","R"," ","a","t"," ","s","t","a","r","t"," ","s","t","a",
    "t","u","s","=","4","0","4"," ","s","e","r","v","i","c","e","=","p","a",
    "y">>
LineStatusShadowed ==
  <<"x"," ","i","n","f","o"," ","T","I","M","E","O","U","T"," ","h","t","t",
    "p","S","t","a","t","u","s","=","a","b","c"," ","s","t","a","t","u","s",
    "=","5","0","3"," ","2","0","2","6","-","0","1","-","0","6","T","1","3",
    ":","0","2",":","0","0",".","Z">>
LinePayUs ==
  <<"s","e","r","v","i","c","e","=","p","a","y"," ","r","e","g","i","o","n","=","u","s","1","0">>
StampMillis ==
  <<"2","0","2","6","-","0","1","-","0","6","T","1","3",":","0","1",":","0",
    "2",".","1","1","4","Z">>
StampSeconds ==
  <<"2","0","2","6","-","0","1","-","0","6","T","1","3",":","0","2",":","0",
    "0","Z">>
StampBroken ==
  <<"2","0","2","6","-","0","1","-","0","6","T","1","3",":","0","2",":","0",
    "0",".","Z">>
LineTwoStamps == StampSeconds \o <<" ">> \o StampMillis
KvQuoted ==
  <<"s","e","r","v","i","c","e","=","\"","a","u","t","h","\""," ","r","e",
    "g","i","o","n","=","\"","e","u","1","0","\"">>
KvBare ==
  <<"s","e","r","v","i","c","e","=","p","a","y">>
KvHttp503 ==
  <<"h","t","t","p","S","t","a","t","u","s","=","5","0","3">>
KvStatusBoth ==
  <<"s","t","a","t","u","s","=","5","0","0"," ","h","t","t","p","S","t","a",
    "t","u","s","=","4","0","4">>
KvStatus599 ==
  <<"s","t","a","t","u","s","=","\"","5","9","9",".","5","\"">>
MsgOk ==
  <<"o","k">>
MsgUpstream ==
  <<"u","p","s","t","r","e","a","m"," ","t","i","m","e","o","u","t">>
MsgCircuit ==
  <<"C","i","r","c","u","i","t"," ","B","r","e","a","k","e","r"," ","o","p",
    "e","n">>
MsgToken ==
  <<"T","O","K","E","N","_","V","A","L","I","D","A","T","I","O","N"," ","s",
    "l","o","w">>
MsgScale ==
  <<"m","a","x"," ","r","e","a","c","h","e","d">>
MsgNoScale ==
  <<"n","o"," ","s","c","a","l","e"," ","e","v","e","n","t">>
LogFiller ==
  <<"r","e","q","u","e","s","t"," ","s","e","r","v","e","d">>

\* the strings made of at most n pieces of the set S
SeqsUpTo(S, n) == UNION {[1..k -> S] : k \in 0..n}
ConcatAll(parts) == Concat(parts, 1, Len(parts))

\* pieces of text that exercise trimming, line breaks and the rich-text reader
StructChunks ==
  { <<" ">>, <<"\n">>, <<"\r","\n">>, <<"\r">>, <<"a">>,
    <<"{","\\","r","t","f","1">>, <<"\\","p","a","r">> }

StructTexts == {ConcatAll(cs) : cs \in SeqsUpTo(StructChunks, MaxChunks)}

\* rich-text documents
RtfTexts ==
  { <<"{","\\","r","t","f","1"," ","h","e","l","l","o","}">>,
    <<"{","\\","r","t","f","1","{","\\","f","o","n","t","t","b","l"," ","x","}",
      "h","i","\\","p","a","r","d"," ","x"," ","E","R","R","O","R"," ","y",
      "\\","p","a","r","\n","\n","\\","p","a","r","t","i","m","e","o","u","t","}">>,
    <<" ","{","\\","r","t","f","1","\\","a","n","s","i","{","\\","*","\\","g",
      "}","\\","'","0","a","\\","'","2","0","\\","p","a","r","}"," ">>,
    <<"{","\\","r","t","f","1","{","a","\\","'","4","1","\\","'","7","d",
      "\\","'","e","9","\\","'","a","0","}","{","\\","b","{">> }

\* a line as stamp, key-value pairs, level and message, each optional
LineStamps == { <<>>, StampMillis \o <<" ">>, StampSeconds \o <<" ">>,
                StampBroken \o <<" ">> }
LineKvs    == { <<>>, KvQuoted, KvBare, KvHttp503, KvStatusBoth, KvStatus599 }
LineLevels == { <<" ">>, <<" ","E","R","R","O","R"," ">>,
                <<" ","w","a","r","n"," ">>, <<" ","I","N","F","O"," ">>,
                <<" ","E","R","R","O","R">> }
LineMsgs   == { <<>>, MsgOk, MsgUpstream, MsgCircuit, MsgToken, MsgScale,
                MsgNoScale }

SingleLineTexts ==
  {st \o kv \o lv \o msg :
     st \in LineStamps, kv \in LineKvs, lv \in LineLevels, msg \in LineMsgs}

\* whole lines for texts of several lines
LogLines == { LineE2E1, LineE2E2, LineAutoscaler, LineMixed, LinePayUs }

\* further lines, each a text of its own
LoneLines == { LineTokenWarn, LineErrorAtStart, LineStatusShadowed,
               LineTwoStamps }

\* the lines joined by line feeds
JoinLines(ls) == join(ls, <<"\n">>)

MultiLineTexts ==
  {JoinLines(ls) : ls \in UNION {[1..k -> LogLines] : k \in 2..MaxLines}}

\* the text of lines numbered 1..k, the first e of them error lines
NumberedLine(i, isError) ==
  <<"l">> \o NatToString(i)
    \o (IF isError THEN <<" ","E","R","R","O","R"," ","x">> ELSE <<>>)
NumberedText(k, e) == JoinLines([i \in 1..k |-> NumberedLine(i, i <= e)])

LongTexts ==
  {NumberedText(k, e) : k \in 1..MaxLong, e \in {0, 1, MaxLong \div 2}}
  \cup {NumberedText(BigLines, e) : e \in {BigLines \div 2 + 1}}

Texts == StructTexts \cup RtfTexts \cup SingleLineTexts \cup LoneLines
           \cup MultiLineTexts \cup LongTexts

IngestBodies ==
  {[t |-> "null", text |-> JsUndefined]}
  \cup {ObjectBody(v) : v \in {JsUndefined, JsNull, JsInt(5), JsBoolean(FALSE)}}
  \cup {ObjectBody(JsString(t)) : t \in Texts}

\* signal values: counts, and error rates around the High threshold
CountValues == {JsInt(i) : i \in 0..MaxCount}
RateValues  == {JsNumber(0), JsNumber(Scale * SeverityHighErrorRate - 1),
                JsNumber(Scale * SeverityHighErrorRate)}

\* values a client may put under a single signal name: counts, and values
\* of other kinds (1e999 reads as Infinity)
OddValues ==
  { JsUndefined, JsNull, JsBoolean(TRUE), JsInfinity, JsInt(-1), JsInt(1),
    JsInt(2), JsNumber(25), JsString(<<"2">>), JsString(<<" ","3"," ">>),
    JsString(<<"2",".","5">>), JsString(<<"a","b","c">>), JsString(<<>>) }

Signals(logLines, errors, warns, timeouts, http5xx, errorRate) ==
  [k \in SignalKeys |->
     CASE k = "log_lines" -> logLines
       [] k = "errors"    -> errors
       [] k = "warns"     -> warns
       [] k = "timeouts"  -> timeouts
       [] k = "http_5xx"  -> http5xx
       [] k = "error_rate_pct" -> errorRate]

FillerLogs(n) == [i \in 1..n |-> JsString(LogFiller)]

\* entries of a logs array: lines with and without the needles of the
\* root-cause rules, and a value that is no string
LogEntries ==
  { JsString(LogFiller), JsString(MsgToken),
    JsString(MsgCircuit \o <<" ">> \o MsgNoScale), JsString(MsgScale),
    JsInt(5) }

ObjectAnalyzeBody(signals, logsIsArray, logs) ==
  AnalyzeBody("object", JsUndefined, JsUndefined, JsUndefined, signals,
              logsIsArray, logs)

AnalyzeBodies ==
  {AnalyzeBody(t, JsUndefined, JsUndefined, JsUndefined, NoSignals, FALSE, <<>>) :
     t \in {"null", "falsy", "object"}}
  \cup {ObjectAnalyzeBody(NoSignals, FALSE, FillerLogs(n)) : n \in 1..2}
  \cup {ObjectAnalyzeBody(Signals(JsInt(n), e, JsInt(0), t, h, r), TRUE,
                          FillerLogs(n)) :
          e \in CountValues, t \in CountValues, h \in CountValues,
          r \in RateValues, n \in 0..MaxLogs}
  \cup {ObjectAnalyzeBody([NoSignals EXCEPT ![k] = v], TRUE, FillerLogs(n)) :
          k \in SignalKeys, v \in OddValues,
          n \in {ConfidenceLowLogs - 1, ConfidenceHighLogs}}
  \cup {ObjectAnalyzeBody(Signals(JsInt(Len(ls)), JsInt(1), JsInt(0), JsInt(0),
                                  JsInt(0), JsNumber(0)), TRUE, ls) :
          ls \in SeqsUpTo(LogEntries, MaxEntries)}

(***************************************************************************)
(* The state machine: a client sends a request to a route, the route       *)
(* answers it, and the client may pass a parsed incident on to the analyze *)
(* route as the page does.  Each variable holds at most one value, as a    *)
(* sequence: the request in flight or answered, and the answer.  calls     *)
(* holds the invocations of the two routes that overlap in time, in the    *)
(* order they began.  page is the state of the page component and net the  *)
(* requests the page has sent and not yet had an answer to.                *)
(***************************************************************************)
\* the page before any action: useState(...) of scenario, telemetry,
\* rawText, loadingIngest, loadingAnalyze, analysis and errorMsg.  analysis
\* holds one output or none (null); errorMsg is a message, a fixed one being
\* a single piece of text, or empty (null).  fileName, fileBytes and copied
\* take no part in what is sent; exportOpen, which only shows or hides the
\* export dialog, is left out
InitialPage ==
  [scenario |-> <<"U","p","l","o","a","d","e","d"," ","I","n","c","i","d","e","n","t">>,
   telemetry |->
     [service |-> FallbackService, region |-> FallbackRegion,
      signals |-> [k \in SignalKeys |-> JsInt(0)], logs |-> <<>>],
   rawText |-> <<>>, fileName |-> <<>>, fileBytes |-> 0,
   loadingIngest |-> FALSE, loadingAnalyze |-> FALSE,
   analysis |-> <<>>, errorMsg |-> <<>>, copied |-> FALSE]

Init ==
  /\ ingestReq = <<>>
  /\ ingestRes = <<>>
  /\ analyzeReq = <<>>
  /\ analyzeRes = <<>>
  /\ calls = <<>>
  /\ page = InitialPage
  /\ net = <<>>

\* a client posts a body to /api/ingest
SubmitIngest ==
  /\ ingestReq = <<>> /\ analyzeReq = <<>>
  /\ \E body \in IngestBodies : ingestReq' = <<body>>
  /\ UNCHANGED <<ingestRes, analyzeReq, analyzeRes, calls, page, net>>

\* the ingest route handles the request
IngestPOST ==
  /\ ingestReq # <<>>
  /\ ingestRes = <<>>
  /\ ingestRes' = <<IngestHandler(ingestReq[1])>>
  /\ UNCHANGED <<ingestReq, analyzeReq, analyzeRes, calls, page, net>>

\* a client posts a body to /api/analyze
SubmitAnalyze ==
  /\ ingestReq = <<>> /\ analyzeReq = <<>>
  /\ \E body \in AnalyzeBodies : analyzeReq' = <<body>>
  /\ UNCHANGED <<ingestReq, ingestRes, analyzeRes, calls, page, net>>

\* the scenario the page sets for a parsed incident: "Uploaded Incident",
\* followed by " (start -> end)" when the time window has a start (the
\* arrow is a character outside the alphabet)
ScenarioOf(incident) ==
  <<"U","p","l","o","a","d","e","d"," ","I","n","c","i","d","e","n","t">>
    \o (IF Truthy(incident.timeWindow.start)
          THEN <<" ","(">> \o incident.timeWindow.start
                 \o <<" ", OtherChar, " ">>
                 \o StringOf(IF incident.timeWindow.end = Undefined
                                THEN JsUndefined
                                ELSE JsString(incident.timeWindow.end))
                 \o <<")">>
          ELSE <<>>)

\* the body the page sends for a parsed incident:
\* { scenario, service, region, signals, logs } from the telemetry it keeps
TelemetryBody(incident) ==
  AnalyzeBody("object", JsString(ScenarioOf(incident)),
              JsString(incident.serviceGuess), JsString(incident.regionGuess),
              [k \in SignalKeys |->
                 CASE k = "log_lines" -> JsInt(incident.derivedSignals.log_lines)
                   [] k = "errors"    -> JsInt(incident.derivedSignals.errors)
                   [] k = "warns"     -> JsInt(incident.derivedSignals.warns)
                   [] k = "timeouts"  -> JsInt(incident.derivedSignals.timeouts)
                   [] k = "http_5xx"  -> JsInt(incident.derivedSignals.http_5xx)
                   [] k = "error_rate_pct" ->
                        JsNumber(incident.derivedSignals.error_rate_pct)],
              TRUE,
              [i \in 1..Len(incident.sampleLines) |->
                 JsString(incident.sampleLines[i])])

\* the parser's result is fed to the analyzer
Generate ==
  /\ ingestRes # <<>>
  /\ ingestRes[1].status = 200
  /\ analyzeReq = <<>>
  /\ analyzeReq' = <<TelemetryBody(ingestRes[1].incident[1])>>
  /\ UNCHANGED <<ingestReq, ingestRes, analyzeRes, calls, page, net>>

\* the analyze route handles the request
AnalyzePOST ==
  /\ analyzeReq # <<>>
  /\ analyzeRes = <<>>
  /\ analyzeRes' = <<AnalyzeHandler(analyzeReq[1])>>
  /\ UNCHANGED <<ingestReq, ingestRes, analyzeReq, calls, page, net>>

\* the client is done with the answers
Reset ==
  /\ \/ ingestRes # <<>> /\ analyzeReq = <<>>
     \/ analyzeRes # <<>>
  /\ ingestReq' = <<>>
  /\ ingestRes' = <<>>
  /\ analyzeReq' = <<>>
  /\ analyzeRes' = <<>>
  /\ UNCHANGED <<calls, page, net>>

Next ==
  \/ SubmitIngest
  \/ IngestPOST
  \/ SubmitAnalyze
  \/ Generate
  \/ AnalyzePOST
  \/ Reset

Spec == Init /\ [][Next]_vars

(***************************************************************************)
(* Invocations that overlap.  Each invocation of a route is a call with    *)
(* its own request body and its own local variables: the ingest route's    *)
(* lines, arrays, counters and patterns Map are declared inside POST, and  *)
(* the regular expression of parseKeyVals is created by each call of       *)
(* parseKeyVals, so its cursor starts at the first character every time.   *)
(* Neither route module declares a variable outside its functions.         *)
(* A call is at "json" until its body has been read, at "loop" while the   *)
(* ingest route iterates over the lines (i of them done), and at "done"    *)
(* once it has returned its answer.  The steps of different calls          *)
(* interleave freely, also between two iterations of the loop.             *)
(***************************************************************************)
\* most calls in one history
MaxCalls == 3

\* the texts and the analyze bodies of these calls
CallTexts ==
  { NumberedText(2, 1), KvHttp503 \o <<" ">> \o MsgUpstream, <<" ">> }

CallBodies ==
  [ingest  |-> {ObjectBody(JsString(t)) : t \in CallTexts},
   analyze |->
     { ObjectAnalyzeBody(Signals(JsInt(3), JsInt(0), JsInt(0), JsInt(0),
                                 JsInt(2), JsNumber(0)), TRUE, FillerLogs(3)),
       ObjectAnalyzeBody(NoSignals, TRUE, <<JsString(MsgToken)>>) }]

\* a request arrives and POST begins, up to await req.json(), whatever the
\* other calls are doing
CallEnters ==
  /\ Len(calls) < MaxCalls
  /\ \E route \in {"ingest", "analyze"} : \E body \in CallBodies[route] :
       calls' = Append(calls, [route |-> route, body |-> body, pc |-> "json",
                               lines |-> <<>>, i |-> 0, acc |-> LoopStart,
                               answer |-> <<>>])
  /\ UNCHANGED <<ingestReq, ingestRes, analyzeReq, analyzeRes, page, net>>

\* the ingest route has the body: it rejects an empty text, or splits the
\* text into lines and sets up its arrays, counters and Map
IngestBegins ==
  \E k \in 1..Len(calls) :
  /\ calls[k].route = "ingest"
  /\ calls[k].pc = "json"
  /\ calls' =
       [calls EXCEPT ![k] =
          IF RawOf(calls[k].body) = <<>>
            THEN [@ EXCEPT !.pc = "done",
                           !.answer = <<IngestReject(400, NoTextProvided)>>]
            ELSE [@ EXCEPT !.pc = "loop",
                           !.lines = LinesOf(RawOf(calls[k].body)),
                           !.i = 0, !.acc = LoopStart]]
  /\ UNCHANGED <<ingestReq, ingestRes, analyzeReq, analyzeRes, page, net>>

\* IngestIterates with the arrays, counters and Map held once for all calls:
\* the iteration continues from what the earliest call still in its loop has
IngestIteratesShared ==
  \E k \in 1..Len(calls) :
  /\ calls[k].route = "ingest"
  /\ calls[k].pc = "loop"
  /\ calls[k].i < Len(calls[k].lines)
  /\ calls' =
       [calls EXCEPT ![k] =
          [@ EXCEPT !.i = @ + 1,
                    !.acc = LoopBody(
                      calls[CHOOSE m \in 1..k :
                              /\ calls[m].route = "ingest"
                              /\ calls[m].pc = "loop"
                              /\ \A n \in 1..(m - 1) :
                                   ~(calls[n].route = "ingest"
                                       /\ calls[n].pc = "loop")].acc,
                      calls[k].lines[calls[k].i + 1])]]
  /\ UNCHANGED <<ingestReq, ingestRes, analyzeReq, analyzeRes, page, net>>

\* one iteration of the for loop, on the call's own arrays, counters and Map
IngestIterates ==
  \E k \in 1..Len(calls) :
  /\ calls[k].route = "ingest"
  /\ calls[k].pc = "loop"
  /\ calls[k].i < Len(calls[k].lines)
  /\ calls' =
       [calls EXCEPT ![k] =
          [@ EXCEPT !.i = @ + 1,
                    !.acc = LoopBody(calls[k].acc,
                                     calls[k].lines[calls[k].i + 1])]]
  /\ UNCHANGED <<ingestReq, ingestRes, analyzeReq, analyzeRes, page, net>>

\* the loop is over: the route builds the incident and returns it
IngestReturns ==
  \E k \in 1..Len(calls) :
  /\ calls[k].route = "ingest"
  /\ calls[k].pc = "loop"
  /\ calls[k].i = Len(calls[k].lines)
  /\ calls' =
       [calls EXCEPT ![k] =
          [@ EXCEPT !.pc = "done",
                    !.answer =
                      <<[status |-> 200, error |-> Undefined,
                         incident |->
                           <<IncidentFrom(calls[k].lines, calls[k].acc)>>]>>]]
  /\ UNCHANGED <<ingestReq, ingestRes, analyzeReq, analyzeRes, page, net>>

\* the logs of the analyze calls that have returned, in the order of calls
RECURSIVE LogsSeenBefore(_)
LogsSeenBefore(n) ==
  IF n = 0 THEN <<>>
  ELSE LogsSeenBefore(n - 1)
         \o (IF calls[n].route = "analyze" /\ calls[n].pc = "done"
               THEN calls[n].body.logs ELSE <<>>)

\* AnalyzeReturns with the logs kept in an array that outlives the call:
\* the array still holds the logs of the calls answered before
AnalyzeReturnsKeepingLogs ==
  \E k \in 1..Len(calls) :
  /\ calls[k].route = "analyze"
  /\ calls[k].pc = "json"
  /\ calls' =
       [calls EXCEPT ![k] =
          [@ EXCEPT !.pc = "done",
                    !.answer =
                      <<AnalyzeHandler(
                          [calls[k].body EXCEPT
                             !.logs = LogsSeenBefore(Len(calls)) \o @])>>]]
  /\ UNCHANGED <<ingestReq, ingestRes, analyzeReq, analyzeRes, page, net>>

\* the analyze route has the body and returns its answer; it has no await
\* after req.json()
AnalyzeReturns ==
  \E k \in 1..Len(calls) :
  /\ calls[k].route = "analyze"
  /\ calls[k].pc = "json"
  /\ calls' =
       [calls EXCEPT ![k] =
          [@ EXCEPT !.pc = "done",
                    !.answer = <<AnalyzeHandler(calls[k].body)>>]]
  /\ UNCHANGED <<ingestReq, ingestRes, analyzeReq, analyzeRes, page, net>>

NextCall ==
  \/ CallEnters
  \/ IngestBegins
  \/ IngestIterates
  \/ IngestReturns
  \/ AnalyzeReturns

SpecCalls == Init /\ [][NextCall]_vars

(***************************************************************************)
(* The page.  Its handlers are modelled as they are written, whether or    *)
(* not the button that calls them is enabled: ingestText, called with the  *)
(* text of an uploaded file or with rawText, generate, clearAll and        *)
(* copyExecutiveSummary.  A fetch puts a request into net; when it         *)
(* settles, with the route's answer or with a failure of the network, the  *)
(* rest of the handler runs.  Requests settle in any order.  SpecPage lets *)
(* every handler run at any time; SpecClicks lets a handler run only when  *)
(* the button that calls it is enabled, and has every request settle.      *)
(***************************************************************************)
\* most requests the page has in flight
MaxFetches == 2

\* the texts a user types or uploads: white space, log lines, and a
\* rich-text document without text
PageTexts ==
  { <<" ">>, NumberedText(2, 1), KvHttp503 \o <<" ">> \o MsgUpstream,
    <<"{","\\","r","t","f","1","}">> }
\* the name of the files a user uploads
PageFileName == <<"i","n","c","i","d","e","n","t",".","l","o","g">>

\* whether the Ingest Logs and the Generate buttons are enabled
readyForIngest == Len(trim(page.rawText)) > 0 /\ ~page.loadingIngest
readyForAnalyze ==
  ~page.loadingAnalyze /\ ~page.loadingIngest /\ Len(page.telemetry.logs) > 0

\* JSON.stringify({ scenario, ...telemetry })
PageBody(scenario, telemetry) ==
  AnalyzeBody("object", JsString(scenario), JsString(telemetry.service),
              JsString(telemetry.region), telemetry.signals, TRUE,
              [i \in 1..Len(telemetry.logs) |-> JsString(telemetry.logs[i])])

\* the textarea's onChange
setRawText ==
  /\ \E text \in PageTexts : page' = [page EXCEPT !.rawText = text]
  /\ UNCHANGED <<ingestReq, ingestRes, analyzeReq, analyzeRes, calls, net>>


\* ingestText with its check of the text moved below setAnalysis(null)
ingestTextClearing(shown, text) ==
  IF trim(text) = <<>>
    THEN /\ page' = [shown EXCEPT !.errorMsg =
                       <<"No log content loaded. Upload a file or paste logs first.">>,
                                  !.analysis = <<>>]
         /\ net' = net
    ELSE /\ Len(net) < MaxFetches
         /\ page' = [shown EXCEPT !.loadingIngest = TRUE, !.errorMsg = <<>>,
                                  !.analysis = <<>>]
         /\ net' = Append(net, [route |-> "ingest",
                                body |-> ObjectBody(JsString(trim(text)))])

\* ingestText(text) up to its fetch, from the page state shown
ingestText(shown, text) ==
  IF trim(text) = <<>>
    THEN /\ page' = [shown EXCEPT !.errorMsg =
                       <<"No log content loaded. Upload a file or paste logs first.">>]
         /\ net' = net
    ELSE /\ Len(net) < MaxFetches
         /\ page' = [shown EXCEPT !.loadingIngest = TRUE, !.errorMsg = <<>>,
                                  !.analysis = <<>>]
         /\ net' = Append(net, [route |-> "ingest",
                                body |-> ObjectBody(JsString(trim(text)))])

\* the file input's onChange: the text of the file becomes rawText, its
\* name and size (one byte for each character of the alphabet) are kept,
\* and the text is ingested
upload ==
  /\ \E text \in PageTexts :
       ingestText([page EXCEPT !.rawText = text, !.fileName = PageFileName,
                               !.fileBytes = Len(text), !.errorMsg = <<>>,
                               !.analysis = <<>>], text)
  /\ UNCHANGED <<ingestReq, ingestRes, analyzeReq, analyzeRes, calls>>

\* ingestText(rawText)
ingestLogs ==
  /\ ingestText(page, page.rawText)
  /\ UNCHANGED <<ingestReq, ingestRes, analyzeReq, analyzeRes, calls>>


\* ingestText with setLoadingIngest(false) at the end of the try block and
\* not in a finally block
IngestSettlesNoFinally ==
  /\ \E i \in 1..Len(net) :
       /\ net[i].route = "ingest"
       /\ net' = SubSeq(net, 1, i - 1) \o SubSeq(net, i + 1, Len(net))
       /\ \/ page' = [page EXCEPT !.errorMsg = <<"Failed to fetch">>]
          \/ \E answer \in {IngestHandler(net[i].body)} :
               page' =
                 IF answer.status = 200
                   THEN [page EXCEPT
                           !.telemetry =
                             [service |-> answer.incident[1].serviceGuess,
                              region  |-> answer.incident[1].regionGuess,
                              signals |-> TelemetryBody(answer.incident[1]).signals,
                              logs    |-> answer.incident[1].sampleLines],
                           !.scenario = ScenarioOf(answer.incident[1]),
                           !.loadingIngest = FALSE]
                   ELSE [page EXCEPT
                           !.errorMsg = <<"Ingest error ">>
                                          \o NatToString(answer.status)
                                          \o <<": ">> \o answer.error]
  /\ UNCHANGED <<ingestReq, ingestRes, analyzeReq, analyzeRes, calls>>

\* the fetch of ingestText settles: the fetch fails, or the route answers;
\* an answer that is not ok is thrown as "Ingest error <status>: <text>",
\* the text of the answer being shown here by its error
IngestSettles ==
  /\ \E i \in 1..Len(net) :
       /\ net[i].route = "ingest"
       /\ net' = SubSeq(net, 1, i - 1) \o SubSeq(net, i + 1, Len(net))
       /\ \/ page' = [page EXCEPT !.errorMsg = <<"Failed to fetch">>,
                                  !.loadingIngest = FALSE]
          \/ \E answer \in {IngestHandler(net[i].body)} :
               page' =
                 IF answer.status = 200
                   THEN [page EXCEPT
                           !.telemetry =
                             [service |-> answer.incident[1].serviceGuess,
                              region  |-> answer.incident[1].regionGuess,
                              signals |-> TelemetryBody(answer.incident[1]).signals,
                              logs    |-> answer.incident[1].sampleLines],
                           !.scenario = ScenarioOf(answer.incident[1]),
                           !.loadingIngest = FALSE]
                   ELSE [page EXCEPT
                           !.errorMsg = <<"Ingest error ">>
                                          \o NatToString(answer.status)
                                          \o <<": ">> \o answer.error,
                           !.loadingIngest = FALSE]
  /\ UNCHANGED <<ingestReq, ingestRes, analyzeReq, analyzeRes, calls>>

\* generate without the check of telemetry.logs.length
generateUnchecked ==
  /\ Len(net) < MaxFetches
  /\ page' = [page EXCEPT !.loadingAnalyze = TRUE, !.errorMsg = <<>>]
  /\ net' = Append(net, [route |-> "analyze",
                         body |-> PageBody(page.scenario, page.telemetry)])
  /\ UNCHANGED <<ingestReq, ingestRes, analyzeReq, analyzeRes, calls>>

\* generate up to its fetch
generate ==
  /\ IF Len(page.telemetry.logs) = 0
       THEN /\ page' = [page EXCEPT !.errorMsg =
                          <<"Ingest must succeed first (no parsed log sample available).">>]
            /\ net' = net
       ELSE /\ Len(net) < MaxFetches
            /\ page' = [page EXCEPT !.loadingAnalyze = TRUE, !.errorMsg = <<>>]
            /\ net' = Append(net, [route |-> "analyze",
                                   body |-> PageBody(page.scenario,
                                                     page.telemetry)])
  /\ UNCHANGED <<ingestReq, ingestRes, analyzeReq, analyzeRes, calls>>

\* the fetch of generate settles: the fetch fails, or the route answers
AnalyzeSettles ==
  /\ \E i \in 1..Len(net) :
       /\ net[i].route = "analyze"
       /\ net' = SubSeq(net, 1, i - 1) \o SubSeq(net, i + 1, Len(net))
       /\ \/ page' = [page EXCEPT !.errorMsg = <<"Failed to fetch">>,
                                  !.analysis = <<>>,
                                  !.loadingAnalyze = FALSE]
          \/ \E answer \in {AnalyzeHandler(net[i].body)} :
               page' =
                 IF answer.status = 200
                   THEN [page EXCEPT !.analysis = answer.output,
                                     !.copied = FALSE,
                                     !.loadingAnalyze = FALSE]
                   ELSE [page EXCEPT
                           !.errorMsg = <<"Analyze API error ">>
                                          \o NatToString(answer.status)
                                          \o <<": ">> \o answer.error,
                           !.analysis = <<>>,
                           !.loadingAnalyze = FALSE]
  /\ UNCHANGED <<ingestReq, ingestRes, analyzeReq, analyzeRes, calls>>


\* clearAll without its check of the loading flags
clearAllUnchecked ==
  /\ page' = [InitialPage EXCEPT !.loadingIngest = page.loadingIngest,
                                 !.loadingAnalyze = page.loadingAnalyze]
  /\ UNCHANGED <<ingestReq, ingestRes, analyzeReq, analyzeRes, calls, net>>

\* clearAll, which returns at once while a request is loading
clearAll ==
  /\ ~(page.loadingIngest \/ page.loadingAnalyze)
  /\ page' = InitialPage
  /\ UNCHANGED <<ingestReq, ingestRes, analyzeReq, analyzeRes, calls, net>>

\* copyExecutiveSummary, which returns at once without an analysis: the
\* text is written to the clipboard and copied is set (a clipboard that
\* refuses changes nothing)
copyExecutiveSummary ==
  /\ page.analysis # <<>>
  /\ page' = [page EXCEPT !.copied = TRUE]
  /\ UNCHANGED <<ingestReq, ingestRes, analyzeReq, analyzeRes, calls, net>>

\* window.setTimeout(() => setCopied(false), 1600) fires
copiedTimeout ==
  /\ page.copied
  /\ page' = [page EXCEPT !.copied = FALSE]
  /\ UNCHANGED <<ingestReq, ingestRes, analyzeReq, analyzeRes, calls, net>>

NextPage ==
  \/ setRawText
  \/ upload
  \/ ingestLogs
  \/ IngestSettles
  \/ generate
  \/ AnalyzeSettles
  \/ clearAll
  \/ copyExecutiveSummary
  \/ copiedTimeout

SpecPage == Init /\ [][NextPage]_vars

\* the page as a user drives it: Ingest Logs, Generate, Clear and Copy run
\* only while their buttons are enabled (Clear is disabled exactly when
\* clearAll returns at once); Upload File and the text area are always
\* enabled
NextClicks ==
  \/ setRawText
  \/ upload
  \/ readyForIngest /\ ingestLogs
  \/ IngestSettles
  \/ readyForAnalyze /\ generate
  \/ AnalyzeSettles
  \/ clearAll
  \/ ~page.loadingAnalyze /\ ~page.loadingIngest /\ copyExecutiveSummary
  \/ copiedTimeout

\* every fetch settles: the promise is fulfilled or rejected
SpecClicks ==
  /\ Init
  /\ [][NextClicks]_vars
  /\ WF_vars(IngestSettles)
  /\ WF_vars(AnalyzeSettles)

(***************************************************************************)
(* Properties of the two routes.  They are stated on the requests and the  *)
(* answers the state holds: ingestRes answers ingestReq and analyzeRes     *)
(* answers analyzeReq.  Numbers are in tenths, as in the routes above.     *)
(***************************************************************************)
\* the ingest route has answered with an incident
Parsed == ingestRes # <<>> /\ ingestRes[1].status = 200
Incident == ingestRes[1].incident[1]
\* the text the parser reads, after de-markup, and its lines
ParsedText == stripRtf(TextOf(ingestReq[1]))
ParsedLines == LinesOf(RawOf(ingestReq[1]))

\* the analyze route has answered with an output
Analyzed == analyzeRes # <<>> /\ analyzeRes[1].status = 200
Output == analyzeRes[1].output[1]
\* a signal of the request as the analyzer reads it
Signal(key) == getNum(analyzeReq[1].signals, key)
\* the request carries a non-empty array of strings as logs
StringLogs ==
  /\ analyzeReq[1].t = "object"
  /\ analyzeReq[1].logsIsArray
  /\ Len(analyzeReq[1].logs) > 0
  /\ \A i \in 1..Len(analyzeReq[1].logs) : analyzeReq[1].logs[i].t = "string"

\* the signals of the request are these counts and this rate, as numbers
SignalsAre(errors, timeouts, http5xx, errorRate) ==
  /\ analyzeReq[1].signals["errors"] = JsInt(errors)
  /\ analyzeReq[1].signals["timeouts"] = JsInt(timeouts)
  /\ analyzeReq[1].signals["http_5xx"] = JsInt(http5xx)
  /\ analyzeReq[1].signals["error_rate_pct"] = JsNumber(errorRate)

\* C1: the severity of every output is High when http_5xx >= 2 or
\* timeouts >= 2 or error_rate_pct >= 3, otherwise Medium when http_5xx >= 1
\* or timeouts >= 1 or errors >= 1, otherwise Low; http_5xx 2 with the rest 0
\* gives High, http_5xx 1 gives Medium, all 0 gives Low; and every request
\* with a non-empty array of strings as logs gets an output
C1_SeverityRule ==
  analyzeRes # <<>> =>
    /\ StringLogs => Analyzed
    /\ Analyzed =>
         /\ Output.severity =
              IF \/ Signal("http_5xx") >= 2 * Scale
                 \/ Signal("timeouts") >= 2 * Scale
                 \/ Signal("error_rate_pct") >= 3 * Scale
                THEN "High"
              ELSE IF \/ Signal("http_5xx") >= 1 * Scale
                      \/ Signal("timeouts") >= 1 * Scale
                      \/ Signal("errors") >= 1 * Scale
                THEN "Medium"
              ELSE "Low"
         /\ SignalsAre(0, 0, 2, 0) => Output.severity = "High"
         /\ SignalsAre(0, 0, 1, 0) => Output.severity = "Medium"
         /\ analyzeReq[1].signals = [NoSignals EXCEPT !["http_5xx"] = JsInt(1)]
              => Output.severity = "Medium"
         /\ SignalsAre(0, 0, 0, 0) => Output.severity = "Low"

\* an output for http_5xx 2 and the rest 0: High at the boundary
C1_Witness ==
  Analyzed /\ SignalsAre(0, 0, 2, 0) /\ Output.severity = "High"

\* C2: the confidence of every output is Low when logs.length < 3 whatever
\* the signals, otherwise High when logs.length >= 6 and
\* timeouts + http_5xx + errors >= 2, otherwise Medium; 2 logs give Low,
\* 6 logs with timeouts 1 and http_5xx 1 give High, 4 logs with all 0 Medium
C2_ConfidenceRule ==
  Analyzed =>
    /\ Output.confidence =
         IF Len(analyzeReq[1].logs) < 3 THEN "Low"
         ELSE IF /\ Len(analyzeReq[1].logs) >= 6
                 /\ Signal("timeouts") + Signal("http_5xx") + Signal("errors")
                      >= 2 * Scale
           THEN "High"
         ELSE "Medium"
    /\ Len(analyzeReq[1].logs) = 2 => Output.confidence = "Low"
    /\ Len(analyzeReq[1].logs) = 6 /\ SignalsAre(0, 1, 1, 0)
         => Output.confidence = "High"
    /\ Len(analyzeReq[1].logs) = 4 /\ SignalsAre(0, 0, 0, 0)
         => Output.confidence = "Medium"

\* an output for 6 logs with timeouts 1 and http_5xx 1: High at the boundary
C2_Witness ==
  /\ Analyzed
  /\ Len(analyzeReq[1].logs) = 6
  /\ SignalsAre(0, 1, 1, 0)
  /\ Output.confidence = "High"

\* the two-line input of the end-to-end example
E2EText == JoinLines(<<LineE2E1, LineE2E2>>)
E2ERequested == ingestReq = <<ObjectBody(JsString(E2EText))>>

\* what the parser yields for it, and what the analyzer yields when the
\* parser's derivedSignals and sampleLines are fed to it, severity aside
E2EParsed ==
  ingestRes # <<>> =>
    /\ Parsed
    /\ Incident.serviceGuess = <<"a","u","t","h">>
    /\ Incident.regionGuess = <<"e","u","1","0">>
    /\ Incident.derivedSignals.errors = 1
    /\ Incident.derivedSignals.timeouts = 1
    /\ Incident.derivedSignals.http_5xx = 1
    /\ \E i \in 1..Len(Incident.topPatterns) :
         Incident.topPatterns[i] = [pattern |-> "upstream_timeout", count |-> 1]
    /\ \E i \in 1..Len(Incident.topPatterns) :
         Incident.topPatterns[i] = [pattern |-> "circuit_breaker_open", count |-> 1]
E2EFed ==
  analyzeReq # <<>> =>
    /\ \A k \in SignalKeys \ {"error_rate_pct"} :
         analyzeReq[1].signals[k] = JsInt(Incident.derivedSignals[k])
    /\ analyzeReq[1].signals["error_rate_pct"]
         = JsNumber(Incident.derivedSignals.error_rate_pct)
    /\ analyzeReq[1].logs
         = [i \in 1..Len(Incident.sampleLines) |-> JsString(Incident.sampleLines[i])]
E2EAnalyzed(severity) ==
  analyzeRes # <<>> =>
    /\ Analyzed
    /\ Output.severity = severity
    /\ includes(Output.rootCause, ClauseUpstreamTimeout)
    /\ includes(Output.rootCause, ClauseCircuitBreaker)

\* C3: for the two-line input the parser yields service auth, region eu10,
\* errors 1, timeouts 1, http_5xx 1 and the tags upstream_timeout and
\* circuit_breaker_open with count 1 each; fed with that, the analyzer
\* yields severity High (the error rate is 50) and a rootCause with the
\* upstream-timeout clause and the circuit-breaker clause
C3_EndToEnd ==
  E2ERequested => E2EParsed /\ E2EFed /\ E2EAnalyzed("High")

\* C3 as the claim has it: the same, with severity Medium
C3_EndToEndMedium ==
  E2ERequested => E2EParsed /\ E2EFed /\ E2EAnalyzed("Medium")

\* the analyzer has answered the parser's result for the two-line input
C3_Witness ==
  E2ERequested /\ Parsed /\ Analyzed /\ Output.severity = "High"

\* the submitted text is missing, empty or white space only
MissingOrBlank(body) ==
  \/ body.t = "null"
  \/ body.text.t \in {"undefined", "null"}
  \/ /\ body.text.t = "string"
     /\ \A i \in 1..Len(body.text.s) : IsSpace(body.text.s[i])

\* C4: the ingest route answers 400 with "No text provided" and no incident
\* when the text is empty after de-markup and trimming (as it is when the
\* text is missing, empty or white space only), and answers every other
\* text with an incident
C4_NoTextRejected ==
  ingestRes # <<>> =>
    /\ trim(ParsedText) = <<>> =>
         ingestRes[1] = [status |-> 400, error |-> NoTextProvided,
                         incident |-> <<>>]
    /\ trim(ParsedText) # <<>> =>
         /\ ingestRes[1].status = 200
         /\ ingestRes[1].error = Undefined
         /\ Len(ingestRes[1].incident) = 1
    /\ MissingOrBlank(ingestReq[1]) => ingestRes[1].status = 400

\* a rich-text document that holds only markup is rejected
C4_Witness ==
  /\ ingestRes # <<>>
  /\ ingestReq[1].t = "object"
  /\ ingestReq[1].text.t = "string"
  /\ startsWith(trim(ingestReq[1].text.s), RtfSignature)
  /\ ingestRes[1].status = 400
  /\ ingestRes[1].incident = <<>>

\* C5: the analyze route answers 400 without an output when the payload is
\* absent, and 400 with "No logs provided" without an output when logs is
\* absent, no array or an empty array; an output is only given for an
\* array of logs with at least one entry
C5_NoLogsRejected ==
  analyzeRes # <<>> =>
    /\ analyzeReq[1].t # "object" =>
         analyzeRes[1].status = 400 /\ analyzeRes[1].output = <<>>
    /\ /\ analyzeReq[1].t = "object"
       /\ ~analyzeReq[1].logsIsArray \/ Len(analyzeReq[1].logs) = 0
       => analyzeRes[1] = [status |-> 400, error |-> NoLogsProvided,
                           output |-> <<>>]
    /\ analyzeRes[1].output # <<>> =>
         /\ analyzeReq[1].t = "object"
         /\ analyzeReq[1].logsIsArray
         /\ Len(analyzeReq[1].logs) >= 1

\* an empty array of logs is rejected
C5_Witness ==
  /\ analyzeRes # <<>>
  /\ analyzeReq[1].t = "object"
  /\ analyzeReq[1].logsIsArray
  /\ analyzeReq[1].logs = <<>>
  /\ analyzeRes[1] = [status |-> 400, error |-> NoLogsProvided, output |-> <<>>]

\* the number of lines of a text that hold more than white space, the
\* lines ending at line feeds: the positions of a first character of a line
\* that is no white space
CountedLines(text) ==
  LET breaks == {0} \cup {j \in 1..Len(text) : text[j] = "\n"}
  IN Cardinality(
       {i \in 1..Len(text) :
          /\ ~IsSpace(text[i])
          /\ \E j \in breaks :
               /\ j < i
               /\ \A k \in (j + 1)..(i - 1) : IsSpace(text[k]) /\ text[k] # "\n"})

\* C6: for every accepted input, derivedSignals.log_lines is the number of
\* lines that remain when the text is split on line breaks, each line is
\* trimmed and the empty ones are dropped
C6_LogLinesCount ==
  Parsed => Incident.derivedSignals.log_lines = CountedLines(ParsedText)

\* an accepted input with an empty line among its lines
C6_Witness ==
  /\ Parsed
  /\ Incident.derivedSignals.log_lines >= 2
  /\ Incident.derivedSignals.log_lines
       < Cardinality({j \in 1..Len(ParsedText) : ParsedText[j] = "\n"}) + 1

\* C7: for every parser result, ten times error_rate_pct is the integer
\* nearest to errors * 1000 / log_lines, halves rounded up, when
\* log_lines > 0, and error_rate_pct is 0 when log_lines = 0
C7_ErrorRateRounded ==
  Parsed =>
    Incident.derivedSignals.error_rate_pct =
      IF Incident.derivedSignals.log_lines > 0
        THEN (2 * 1000 * Incident.derivedSignals.errors
                + Incident.derivedSignals.log_lines)
               \div (2 * Incident.derivedSignals.log_lines)
        ELSE 0

\* the tags in the order the parser tests a line for them, and the marks
\* that make a line count for a tag
TagOrder ==
  <<"token_validation_slow", "upstream_timeout", "downstream_instability",
    "circuit_breaker_open", "autoscaler_max_reached">>
TagMarks(tag) ==
  CASE tag = "token_validation_slow"  -> {MarkTokenValidation}
    [] tag = "upstream_timeout"       -> {MarkUpstreamTimeout}
    [] tag = "downstream_instability" -> {MarkDownstream}
    [] tag = "circuit_breaker_open"   -> {MarkCircuitBreaker}
    [] tag = "autoscaler_max_reached" -> {MarkNoScaleEvent, MarkMaxReached}
LinesWithTag(lines, tag) ==
  {i \in 1..Len(lines) :
     \E m \in TagMarks(tag) : includes(toUpperCase(lines[i]), m)}
\* tag a is encountered before tag b: on an earlier line, or on the same
\* line by an earlier test
SeenBefore(lines, a, b) ==
  LET first(t) == CHOOSE i \in LinesWithTag(lines, t) :
                    \A j \in LinesWithTag(lines, t) : i <= j
      rank(t) == CHOOSE k \in 1..Len(TagOrder) : TagOrder[k] = t
  IN \/ first(a) < first(b)
     \/ first(a) = first(b) /\ rank(a) < rank(b)

\* C8: for every parser result, topPatterns has at most 6 entries, one for
\* each tag found in the input with the number of its lines as count
\* (never 0), sorted by count descending, entries of equal count in the
\* order in which the parser first encountered their tags
C8_TopPatternsSorted ==
  Parsed =>
    /\ Len(Incident.topPatterns) <= 6
    /\ \A i \in 1..Len(Incident.topPatterns) :
         /\ Incident.topPatterns[i].count > 0
         /\ Incident.topPatterns[i].count
              = Cardinality(LinesWithTag(ParsedLines, Incident.topPatterns[i].pattern))
    /\ \A k \in 1..Len(TagOrder) :
         LinesWithTag(ParsedLines, TagOrder[k]) # {} =>
           \E i \in 1..Len(Incident.topPatterns) :
             Incident.topPatterns[i].pattern = TagOrder[k]
    /\ \A i, j \in 1..Len(Incident.topPatterns) :
         i < j =>
           /\ Incident.topPatterns[i].count >= Incident.topPatterns[j].count
           /\ Incident.topPatterns[i].count = Incident.topPatterns[j].count
                => SeenBefore(ParsedLines, Incident.topPatterns[i].pattern,
                              Incident.topPatterns[j].pattern)

\* a result in which two tags tie and a tag met later outranks one met
\* earlier
C8_Witness ==
  /\ Parsed
  /\ \E i, j \in 1..Len(Incident.topPatterns) :
       i < j /\ Incident.topPatterns[i].count = Incident.topPatterns[j].count
  /\ \E i, j \in 1..Len(Incident.topPatterns) :
       /\ i < j
       /\ Incident.topPatterns[i].count > Incident.topPatterns[j].count
       /\ SeenBefore(ParsedLines, Incident.topPatterns[j].pattern,
                     Incident.topPatterns[i].pattern)

\* C9: for every parser result, sampleLines has min(10, log_lines) lines
\* and its i-th line is the i-th parsed line
C9_SampleLinesPrefix ==
  Parsed =>
    /\ Len(Incident.sampleLines)
         = (IF Incident.derivedSignals.log_lines < 10
              THEN Incident.derivedSignals.log_lines ELSE 10)
    /\ \A i \in 1..Len(Incident.sampleLines) :
         Incident.sampleLines[i] = ParsedLines[i]

\* a result with more than 10 lines, of which 10 are kept
C9_Witness ==
  /\ Parsed
  /\ Incident.derivedSignals.log_lines > 10
  /\ Len(Incident.sampleLines) = 10
  /\ Incident.sampleLines[10] = ParsedLines[10]

\* no line holds a timestamp the parser recognizes
NoTimestamp(lines) ==
  \A n \in 1..Len(lines) :
    \A i \in 1..Len(lines[n]) : IsoMatchLen(lines[n], i) = 0

\* C10: for every accepted input of which no line holds a recognizable
\* timestamp, timeWindow.start and timeWindow.end are both absent
C10_NoTimestampNoWindow ==
  Parsed /\ NoTimestamp(ParsedLines) =>
    /\ Incident.timeWindow.start = Undefined
    /\ Incident.timeWindow.end = Undefined

\* a result for lines with digits and a broken timestamp, but no timestamp
C10_Witness ==
  /\ Parsed
  /\ NoTimestamp(ParsedLines)
  /\ \E n \in 1..Len(ParsedLines) : includes(ParsedLines[n], StampBroken)
  /\ Incident.timeWindow.start = Undefined
  /\ Incident.timeWindow.end = Undefined

\* the calls that have returned, and the calls of the analyze route among them
Returned(k) == calls[k].pc = "done"
AnalyzeReturned(k) == calls[k].route = "analyze" /\ Returned(k)

C12_CallsIndependent ==
  \A k \in 1..Len(calls) :
    Returned(k) =>
      calls[k].answer =
        <<IF calls[k].route = "ingest" THEN IngestHandler(calls[k].body)
          ELSE AnalyzeHandler(calls[k].body)>>

\* an ingest call has returned an incident while an ingest call for another
\* text, begun before it, is between two iterations of its loop
C12_Witness ==
  \E j \in 1..Len(calls) : \E k \in 1..Len(calls) :
    /\ j < k
    /\ calls[k].route = "ingest" /\ Returned(k)
    /\ calls[k].answer[1].status = 200
    /\ calls[j].route = "ingest" /\ calls[j].pc = "loop"
    /\ calls[j].i > 0 /\ calls[j].i < Len(calls[j].lines)
    /\ calls[j].body # calls[k].body

\* the three narrative texts the source gives for each severity
NarrativeHigh ==
  [summary |-> "Signals show a material deviation from normal performance, including elevated timeouts and 5xx responses, likely impacting user authentication and downstream API reliability.",
   businessImpact |-> "High risk of SLA breach and customer-facing disruption (login failures / failed API calls), with potential revenue and reputational impact if not mitigated quickly.",
   executiveOneLiner |-> "We are seeing elevated auth latency and 5xx errors consistent with dependency timeouts under load; containment and scaling guardrails are required immediately."]
NarrativeMedium ==
  [summary |-> "Signals indicate intermittent degradation (timeouts/5xx) that could escalate under load and affect user-facing flows.",
   businessImpact |-> "Moderate risk of incident escalation and partial customer impact; proactive remediation will reduce MTTR and avoid repeated occurrences.",
   executiveOneLiner |-> "Early indicators of reliability drift (timeouts/5xx); correlating with releases and tuning scaling/alerts will prevent escalation."]
NarrativeLow ==
  [summary |-> "Signals suggest minor anomalies; monitor closely and validate baseline thresholds.",
   businessImpact |-> "Low immediate customer impact; use the event to harden detection and operational guardrails.",
   executiveOneLiner |-> "Minor anomalies detected; we will validate baselines and strengthen alerting to prevent future drift."]
NarrativeFor(severity) ==
  CASE severity = "High" -> NarrativeHigh
    [] severity = "Medium" -> NarrativeMedium
    [] severity = "Low" -> NarrativeLow

\* C13: the narrative fields depend on severity only: in every output,
\* summary, businessImpact and executiveOneLiner are the texts fixed for the
\* output's severity (three different texts each), whatever the signals and
\* the logs of the request; actions and btpNextSteps are the same two lists
\* of five elements in every output
C13_NarrativeBySeverity ==
  Analyzed =>
    /\ Output.severity \in {"High", "Medium", "Low"}
    /\ Output.summary = NarrativeFor(Output.severity).summary
    /\ Output.businessImpact = NarrativeFor(Output.severity).businessImpact
    /\ Output.executiveOneLiner = NarrativeFor(Output.severity).executiveOneLiner
    /\ \A f \in {"summary", "businessImpact", "executiveOneLiner"} :
         Cardinality({NarrativeHigh[f], NarrativeMedium[f], NarrativeLow[f]}) = 3
    /\ Output.actions = actions
    /\ Len(Output.actions) = 5
    /\ Output.btpNextSteps = btpNextSteps
    /\ Len(Output.btpNextSteps) = 5

\* an output of severity Medium whose root cause names a clause found in the
\* logs: the logs show in rootCause, the narrative is the one for Medium
C13_Witness ==
  /\ Analyzed
  /\ Output.severity = "Medium"
  /\ Output.rootCause # RootCauseFallback
  /\ Output.summary = NarrativeMedium.summary

\* some entry of the request's logs contains the phrase, letter case aside
LogsMention(phrase) ==
  \E i \in 1..Len(analyzeReq[1].logs) :
    /\ analyzeReq[1].logs[i].t = "string"
    /\ includes(toUpperCase(analyzeReq[1].logs[i].s), toUpperCase(phrase))
MentionsTokenValidation == LogsMention(<<"t","o","k","e","n","_","v","a","l","i","d","a","t","i","o","n">>)
MentionsUpstreamTimeout == LogsMention(<<"u","p","s","t","r","e","a","m"," ","t","i","m","e","o","u","t">>)
MentionsCircuitBreaker == LogsMention(<<"c","i","r","c","u","i","t"," ","b","r","e","a","k","e","r">>)
MentionsNoScaleEvent == LogsMention(<<"n","o"," ","s","c","a","l","e"," ","e","v","e","n","t">>)

\* the clause of a flag: nothing when the flag is not set, else the clause,
\* after "; " when a flag before it is set
ClauseIf(flag, before, clause) ==
  IF flag THEN (IF before THEN <<";"," ">> ELSE <<>>) \o clause ELSE <<>>

\* C14: rootCause is built from four presence flags over the logs, each set
\* when some log entry contains its phrase in any letter case
\* ("token_validation", "upstream timeout", "circuit breaker",
\* "no scale event"); each set flag adds its one clause, in that order,
\* joined by "; " after "Most likely driver: " and closed by "."; with no
\* flag set rootCause is the fallback sentence
C14_RootCauseFromFlags ==
  Analyzed =>
    Output.rootCause =
      IF \/ MentionsTokenValidation \/ MentionsUpstreamTimeout
         \/ MentionsCircuitBreaker \/ MentionsNoScaleEvent
        THEN <<"M","o","s","t"," ","l","i","k","e","l","y"," ","d","r","i","v","e","r",":"," ">>
               \o ClauseIf(MentionsTokenValidation, FALSE, ClauseTokenSlow)
               \o ClauseIf(MentionsUpstreamTimeout, MentionsTokenValidation,
                           ClauseUpstreamTimeout)
               \o ClauseIf(MentionsCircuitBreaker,
                           MentionsTokenValidation \/ MentionsUpstreamTimeout,
                           ClauseCircuitBreaker)
               \o ClauseIf(MentionsNoScaleEvent,
                           \/ MentionsTokenValidation \/ MentionsUpstreamTimeout
                           \/ MentionsCircuitBreaker,
                           ClauseAutoscalerMax)
               \o <<".">>
        ELSE <<"M","o","s","t"," ","l","i","k","e","l","y"," ","d","r","i","v","e","r",":"," ","d","e","p","e","n","d","e","n","c","y"," ","l","a","t","e","n","c","y"," ","a","n","d"," ","i","n","t","e","r","m","i","t","t","e","n","t"," ","g","a","t","e","w","a","y"," ","e","r","r","o","r","s"," ","u","n","d","e","r"," ","l","o","a","d",".">>

\* an output for logs that mention token_validation (in capitals), a circuit
\* breaker and no scale event, but no upstream timeout: three clauses
C14_Witness ==
  /\ Analyzed
  /\ MentionsTokenValidation
  /\ ~MentionsUpstreamTimeout
  /\ MentionsCircuitBreaker
  /\ MentionsNoScaleEvent
  /\ Output.rootCause =
       RootCausePrefix \o ClauseTokenSlow \o <<";"," ">> \o ClauseCircuitBreaker
         \o <<";"," ">> \o ClauseAutoscalerMax \o <<".">>

\* the lines in lower case
Lowered(lines) == Force([i \in 1..Len(lines) |-> toLowerCase(lines[i])])
\* the line, given in lower case, contains the phrase, letter case aside
Mentions(line, phrase) == includes(line, toLowerCase(phrase))
\* the line contains the level as a word between two spaces
HasLevel(line, level) == Mentions(line, <<" ">> \o level \o <<" ">>)
LevelError == <<"e","r","r","o","r">>
LevelWarn == <<"w","a","r","n">>
LevelInfo == <<"i","n","f","o">>
\* the lines, given in lower case, that have one of the levels, and those
\* counted under a level when ERROR goes before WARN and WARN before INFO
LinesWithLevel(lines, levels) ==
  {i \in 1..Len(lines) : \E level \in levels : HasLevel(lines[i], level)}
LinesCountedAs(lines, level, higher) ==
  LinesWithLevel(lines, {level}) \ LinesWithLevel(lines, higher)
LevelCounts(lines) ==
  [errors |-> Cardinality(LinesCountedAs(lines, LevelError, {})),
   warns  |-> Cardinality(LinesCountedAs(lines, LevelWarn, {LevelError})),
   infos  |-> Cardinality(LinesCountedAs(lines, LevelInfo,
                                         {LevelError, LevelWarn})),
   any    |-> Cardinality(LinesWithLevel(lines,
                                         {LevelError, LevelWarn, LevelInfo}))]
LevelCountsAre(signals, counts) ==
  /\ signals.errors = counts.errors
  /\ signals.warns = counts.warns
  /\ signals.infos = counts.infos
  /\ signals.errors + signals.warns + signals.infos = counts.any

\* C16: every line is counted under at most one level, by the priority
\* ERROR, WARN, INFO: errors is the number of lines with " ERROR " (any
\* letter case), warns the number of lines with " WARN " and without
\* " ERROR ", infos the number of lines with " INFO " and neither of the
\* other two; a line with none of the markers is in no counter, so the three
\* counters add up to the number of lines with at least one marker
C16_LevelByPriority ==
  Parsed =>
    LevelCountsAre(Incident.derivedSignals, LevelCounts(Lowered(ParsedLines)))

\* a parsed text with a line that has " ERROR " and " WARN ", counted as an
\* error and not as a warning, and a line with no marker
C16_Witness ==
  /\ Parsed
  /\ LinesWithLevel(Lowered(ParsedLines), {LevelError})
       \cap LinesWithLevel(Lowered(ParsedLines), {LevelWarn}) # {}
  /\ LevelCounts(Lowered(ParsedLines)).any < Incident.derivedSignals.log_lines
  /\ Incident.derivedSignals.errors >= 1
  /\ Incident.derivedSignals.warns = 0

\* the lines, given in lower case, that contain the phrase
LinesMentioning(lines, phrase) ==
  {i \in 1..Len(lines) : Mentions(lines[i], phrase)}

\* C17: timeouts is the number of lines that contain "TIMEOUT" in any letter
\* case, whatever level the line is counted under, if any
C17_TimeoutsCount ==
  Parsed =>
    Incident.derivedSignals.timeouts =
      Cardinality(LinesMentioning(Lowered(ParsedLines), <<"t","i","m","e","o","u","t">>))

\* a parsed text of one line that ends in "timeout" and has no level: it is
\* counted as a timeout and under no level
C17_Witness ==
  /\ Parsed
  /\ Incident.derivedSignals.log_lines = 1
  /\ Incident.derivedSignals.timeouts = 1
  /\ Incident.derivedSignals.errors + Incident.derivedSignals.warns
       + Incident.derivedSignals.infos = 0
  /\ endsWith(ParsedLines[1], <<"t","i","m","e","o","u","t">>)

\* the lines in which a timestamp is found
StampedLines(lines) ==
  {i \in 1..Len(lines) : Truthy(safeIsoFromLine(lines[i]))}
FirstOf(positions) == CHOOSE i \in positions : \A j \in positions : i <= j
LastOf(positions) == CHOOSE i \in positions : \A j \in positions : j <= i
\* the window is made of the timestamps of the first and of the last of the
\* stamped lines
WindowIs(window, lines, stamped) ==
  IF stamped = {}
    THEN window.start = Undefined /\ window.end = Undefined
    ELSE /\ window.start = safeIsoFromLine(lines[FirstOf(stamped)])
         /\ window.end = safeIsoFromLine(lines[LastOf(stamped)])

\* C18: timeWindow.start is the timestamp found on the first line that has
\* one and timeWindow.end the timestamp found on the last line that has one,
\* in the order of the lines in the document; the timestamps are not
\* sorted, so on input that is out of order end is earlier than start
C18_WindowInDocumentOrder ==
  Parsed => WindowIs(Incident.timeWindow, ParsedLines, StampedLines(ParsedLines))

\* a parsed text whose first stamped line is of 2026 and whose last stamped
\* line is of 2025: end is earlier than start
C18_Witness ==
  /\ Parsed
  /\ Incident.timeWindow.start = <<"2","0","2","6","-","0","1","-","0","6","T","1","3",":","0","1",":","0","2",".","1","1","4","Z">>
  /\ Incident.timeWindow.end = <<"2","0","2","5","-","1","2","-","3","1","T","2","3",":","5","9",":","5","9","Z">>

\* the key=value pairs of each parsed line, and the value each line gives
\* for a key, undefined where it gives none
KvsOf(lines) == Force([i \in 1..Len(lines) |-> parseKeyVals(lines[i])])
ParsedKvs == KvsOf(ParsedLines)
ValuesOf(kvs, key) == Force([i \in 1..Len(kvs) |-> KvGet(kvs[i], key)])
ValuesAt(key) == ValuesOf(ParsedKvs, key)
\* the lines that give a value, and how many lines give the value of line i
Giving(vals) == {i \in 1..Len(vals) : Truthy(vals[i])}
Frequency(vals, i) == Cardinality({j \in 1..Len(vals) : vals[j] = vals[i]})
\* the lines whose value no other value exceeds in frequency
MostFrequent(vals) ==
  {i \in Giving(vals) :
     \A j \in Giving(vals) : Frequency(vals, j) <= Frequency(vals, i)}
\* the guess is the value of the first line among those of the highest
\* frequency, or the sentinel when no line gives a value
GuessIs(guess, vals, sentinel) ==
  IF Giving(vals) = {} THEN guess = sentinel
  ELSE guess = vals[FirstOf(MostFrequent(vals))]
\* both guesses, from the key=value pairs of the lines
GuessesAre(incident, kvs) ==
  /\ GuessIs(incident.serviceGuess, ValuesOf(kvs, <<"s","e","r","v","i","c","e">>),
             <<"B","T","P"," ","S","e","r","v","i","c","e"," ","(","u","n","k","n","o","w","n",")">>)
  /\ GuessIs(incident.regionGuess, ValuesOf(kvs, <<"r","e","g","i","o","n">>),
             <<"u","n","k","n","o","w","n">>)

\* C19: serviceGuess (resp. regionGuess) is the most frequent of the service
\* (resp. region) values extracted from the lines; among values of the same
\* highest frequency the one seen first in the input wins; when no line
\* gives a value the guess is "BTP Service (unknown)" (resp. "unknown")
C19_MostFrequentFirstSeen == Parsed => GuessesAre(Incident, ParsedKvs)

\* a parsed text in which two services and two regions are extracted once
\* each, pay and us10 on a line before auth and eu10: the first seen win
C19_Witness ==
  /\ Parsed
  /\ Incident.derivedSignals.log_lines = 2
  /\ ValuesAt(KeyService) = <<<<"p","a","y">>, <<"a","u","t","h">>>>
  /\ ValuesAt(KeyRegion) = <<<<"u","s","1","0">>, <<"e","u","1","0">>>>
  /\ Incident.serviceGuess = <<"p","a","y">>
  /\ Incident.regionGuess = <<"u","s","1","0">>

\* the text is a decimal numeral, without sign or exponent, of a number
\* from 500 to 599: 5 and two digits, then nothing, or a point and digits
\* that are all 0 when the digits before it are 599
Reads5xx(text) ==
  /\ text # Undefined
  /\ Len(text) >= 3
  /\ text[1] = "5" /\ IsDigit(text[2]) /\ IsDigit(text[3])
  /\ Len(text) > 3 =>
       /\ text[4] = "."
       /\ \A k \in 5..Len(text) : IsDigit(text[k])
       /\ (text[2] = "9" /\ text[3] = "9") =>
            \A k \in 5..Len(text) : text[k] = "0"
\* the lines whose status-like field reads as 5xx: the httpStatus value of
\* a line that has the key, else its status value
Lines5xx(kvs) ==
  {i \in 1..Len(kvs) :
     IF KvGet(kvs[i], <<"h","t","t","p","S","t","a","t","u","s">>) # Undefined
       THEN Reads5xx(KvGet(kvs[i], <<"h","t","t","p","S","t","a","t","u","s">>))
       ELSE Reads5xx(KvGet(kvs[i], <<"s","t","a","t","u","s">>))}

\* C20: http_5xx is the number of lines whose status-like field reads as a
\* number from 500 to 599, the field being the value of httpStatus when the
\* line has that key and the value of status otherwise; a line with neither
\* key, or whose field is no number or a number outside the range, adds
\* nothing
C20_Http5xxCount ==
  Parsed => Incident.derivedSignals.http_5xx = Cardinality(Lines5xx(ParsedKvs))

\* a parsed line with status=500 and httpStatus=404: the field is
\* httpStatus, and the line adds nothing
C20_Witness ==
  /\ Parsed
  /\ ValuesAt(KeyStatus) = <<<<"5","0","0">>>>
  /\ ValuesAt(KeyHttpStatus) = <<<<"4","0","4">>>>
  /\ Incident.derivedSignals.http_5xx = 0

\* the analyze requests the page has in flight
AnalyzeFetches(requests) ==
  {i \in 1..Len(requests) : requests[i].route = "analyze"}

\* C15: in the page, generate is unlocked only by a successful ingest: from
\* the initial state and after any sequence of upload, ingest, generate and
\* clear actions, every analyze request in flight carries at least one
\* parsed sample line; a step that sends an analyze request starts with
\* telemetry.logs holding at least one line and sends those lines;
\* telemetry.logs gets its first line only when an ingest request is
\* answered with an incident; and generate invoked with an empty sample
\* sends no request and sets the error message
C15_GenerateNeedsSample ==
  /\ [](\A i \in AnalyzeFetches(net) : Len(net[i].body.logs) > 0)
  /\ [][/\ Cardinality(AnalyzeFetches(net')) > Cardinality(AnalyzeFetches(net))
          => /\ Len(page.telemetry.logs) > 0
             /\ Len(net') = Len(net) + 1
             /\ net'[Len(net')].body.logs =
                  [i \in 1..Len(page.telemetry.logs) |->
                     JsString(page.telemetry.logs[i])]
        /\ Len(page.telemetry.logs) = 0 /\ Len(page'.telemetry.logs) > 0
          => \E i \in 1..Len(net) :
               /\ net[i].route = "ingest"
               /\ IngestHandler(net[i].body).status = 200
               /\ net' = SubSeq(net, 1, i - 1) \o SubSeq(net, i + 1, Len(net))
        /\ generate /\ Len(page.telemetry.logs) = 0
          => /\ net' = net
             /\ page'.errorMsg =
                  <<"Ingest must succeed first (no parsed log sample available).">>]_vars

\* after a successful ingest an analyze request is in flight, carrying the
\* sample lines the page holds
C15_Witness ==
  /\ page.loadingAnalyze
  /\ AnalyzeFetches(net) # {}
  /\ Len(page.telemetry.logs) > 0
  /\ \A i \in AnalyzeFetches(net) :
       net[i].body = PageBody(page.scenario, page.telemetry)

\* the substring tests of the five tags, on a line in lower case
TagTests ==
  [token_validation_slow  |-> {<<"t","o","k","e","n","_","v","a","l","i","d","a","t","i","o","n">>},
   upstream_timeout       |-> {<<"u","p","s","t","r","e","a","m"," ","t","i","m","e","o","u","t">>},
   downstream_instability |-> {<<"d","o","w","n","s","t","r","e","a","m">>},
   circuit_breaker_open   |-> {<<"c","i","r","c","u","i","t"," ","b","r","e","a","k","e","r">>},
   autoscaler_max_reached |-> {<<"n","o"," ","s","c","a","l","e"," ","e","v","e","n","t">>,
                               <<"m","a","x"," ","r","e","a","c","h","e","d">>}]
\* the lines, given in lower case, that pass one of the tests
LinesPassing(lines, tests) ==
  {i \in 1..Len(lines) : \E phrase \in tests : includes(lines[i], phrase)}
\* the count reported for a tag: that of its entries in topPatterns, 0 when
\* it has none
ReportedCount(patterns, tag) ==
  IF \E i \in 1..Len(patterns) : patterns[i].pattern = tag
    THEN patterns[CHOOSE i \in 1..Len(patterns) : patterns[i].pattern = tag].count
    ELSE 0
TagCountsAre(patterns, lines) ==
  /\ \A tag \in DOMAIN TagTests :
       ReportedCount(patterns, tag) = Cardinality(LinesPassing(lines, TagTests[tag]))
  /\ \A i, j \in 1..Len(patterns) :
       /\ patterns[i].pattern \in DOMAIN TagTests
       /\ patterns[i].pattern = patterns[j].pattern => i = j

\* C21: for each of the five tags the reported count is the number of lines
\* that pass the tag's substring test, letter case aside, each test being
\* made on every line whatever the other tests gave: a line passing several
\* tests counts for each of those tags, and a line with both "NO SCALE
\* EVENT" and "MAX REACHED" counts once for autoscaler_max_reached; no
\* other tag is reported and none twice
C21_TagsIndependent ==
  Parsed => TagCountsAre(Incident.topPatterns, Lowered(ParsedLines))

\* a parsed text of two lines, one of which has both autoscaler phrases and
\* "downstream": it counts once for either tag
C21_Witness ==
  /\ Parsed
  /\ Incident.derivedSignals.log_lines = 2
  /\ Cardinality(LinesPassing(Lowered(ParsedLines),
                              {<<"n","o"," ","s","c","a","l","e"," ","e","v","e","n","t">>})
                   \cap LinesPassing(Lowered(ParsedLines),
                                     {<<"m","a","x"," ","r","e","a","c","h","e","d">>})
                   \cap LinesPassing(Lowered(ParsedLines),
                                     TagTests.downstream_instability)) = 1
  /\ ReportedCount(Incident.topPatterns, "autoscaler_max_reached") = 1
  /\ ReportedCount(Incident.topPatterns, "downstream_instability") = 1

\* the analyze request is the one the page builds from the parser's result,
\* and it has been answered
FedToAnalyzer ==
  /\ analyzeReq = <<TelemetryBody(Incident)>>
  /\ analyzeRes # <<>>

\* C22: every successful ingest response has log_lines >= 1 and at least
\* one sample line, and the analyzer, given the parser's derivedSignals as
\* signals and its sampleLines as logs, does not answer "No logs provided"
C22_ParsedFeedsAnalyzer ==
  Parsed =>
    /\ Incident.derivedSignals.log_lines >= 1
    /\ Len(Incident.sampleLines) >= 1
    /\ FedToAnalyzer => analyzeRes[1].error # NoLogsProvided

\* a parsed text of a single line, fed to the analyzer, which answers with
\* an output
C22_Witness ==
  /\ Parsed
  /\ Incident.derivedSignals.log_lines = 1
  /\ Len(Incident.sampleLines) = 1
  /\ FedToAnalyzer
  /\ analyzeRes[1].status = 200

\* the counters of a result lie within the number of its lines, and its
\* error rate between 0 and 100 percent
WithinLines(signals, patterns) ==
  /\ signals.errors >= 0 /\ signals.warns >= 0 /\ signals.infos >= 0
  /\ signals.errors + signals.warns + signals.infos <= signals.log_lines
  /\ signals.timeouts >= 0 /\ signals.timeouts <= signals.log_lines
  /\ signals.http_5xx >= 0 /\ signals.http_5xx <= signals.log_lines
  /\ \A i \in 1..Len(patterns) :
       patterns[i].count >= 1 /\ patterns[i].count <= signals.log_lines
  /\ signals.error_rate_pct >= 0
  /\ signals.error_rate_pct <= Scale * 100

\* C23: in every parser result errors + warns + infos <= log_lines,
\* timeouts <= log_lines, http_5xx <= log_lines, every count in topPatterns
\* is between 1 and log_lines, and error_rate_pct is between 0 and 100
C23_CounterBounds ==
  Parsed => WithinLines(Incident.derivedSignals, Incident.topPatterns)

\* a parsed text of several lines, every line an error line with a timeout
\* of the same tag: the counters reach log_lines and the rate 100
C23_Witness ==
  /\ Parsed
  /\ Incident.derivedSignals.log_lines >= 2
  /\ Incident.derivedSignals.errors = Incident.derivedSignals.log_lines
  /\ Incident.derivedSignals.timeouts = Incident.derivedSignals.log_lines
  /\ Incident.derivedSignals.error_rate_pct = Scale * 100
  /\ \E i \in 1..Len(Incident.topPatterns) :
       Incident.topPatterns[i].count = Incident.derivedSignals.log_lines

\* Low < Medium < High
SeverityRank(severity) ==
  CASE severity = "Low" -> 1 [] severity = "Medium" -> 2 [] severity = "High" -> 3
\* the signals the severity depends on, and the amounts, in tenths, a
\* signal is raised by: a tenth, and 1, 2 and 3
SeveritySignals == {"errors", "timeouts", "http_5xx", "error_rate_pct"}
Raises == {1, Scale, 2 * Scale, 3 * Scale}
\* the analyzer's answer to the request with one signal raised, the number
\* the analyzer reads for it (0 when the value is no finite number) being
\* greater by the amount, and the other signals and the logs as they are
AnswerRaised(request, key, amount) ==
  AnalyzeHandler([request EXCEPT
                    !.signals[key] = JsNumber(getNum(request.signals, key) + amount)])
AtLeast(answer, severity) ==
  /\ answer.status = 200
  /\ SeverityRank(answer.output[1].severity) >= SeverityRank(severity)
NeverLowered(request, severity) ==
  \A key \in SeveritySignals, amount \in Raises :
    AtLeast(AnswerRaised(request, key, amount), severity)

\* C24: with Low < Medium < High, raising one of errors, timeouts, http_5xx
\* and error_rate_pct, as numbers read by the analyzer, while the other
\* signals and the logs stay as they are, never lowers the severity
C24_SeverityMonotone ==
  Analyzed => NeverLowered(analyzeReq[1], Output.severity)

\* an output of severity Medium for a request whose severity a raised
\* signal takes to High, and one of severity High
C24_Witness ==
  /\ Analyzed
  /\ Output.severity = "Medium"
  /\ Signal("timeouts") = Scale
  /\ AnswerRaised(analyzeReq[1], "timeouts", Scale).output[1].severity = "High"
  /\ AnswerRaised(analyzeReq[1], "errors", Scale).output[1].severity = "Medium"

\* the tags of the parser that have a clause in the analyzer's rootCause
ClauseOfTag ==
  [token_validation_slow  |-> ClauseTokenSlow,
   upstream_timeout       |-> ClauseUpstreamTimeout,
   circuit_breaker_open   |-> ClauseCircuitBreaker,
   autoscaler_max_reached |-> ClauseAutoscalerMax]
\* the tag is in topPatterns exactly when its clause is in rootCause
TagAgrees(patterns, rootCause, tag) ==
  ReportedCount(patterns, tag) > 0 <=> includes(rootCause, ClauseOfTag[tag])

\* C25: for an input of at most 10 lines, the analyzer's rootCause, for the
\* parser's sampleLines as logs, contains the token-validation, the
\* upstream-timeout, the circuit-breaker or the autoscaler-max clause
\* exactly when the parser's topPatterns contains token_validation_slow,
\* upstream_timeout, circuit_breaker_open or autoscaler_max_reached
C25_TagsAndClausesAgree ==
  (Parsed /\ Incident.derivedSignals.log_lines <= 10 /\ FedToAnalyzer /\ Analyzed)
    => \A tag \in DOMAIN ClauseOfTag :
         TagAgrees(Incident.topPatterns, Output.rootCause, tag)

\* the ingest requests the page has in flight
IngestFetches(requests) ==
  {i \in 1..Len(requests) : requests[i].route = "ingest"}

\* C26: in the page, whenever no request is in flight and analysis is not
\* null, the analysis is the analyzer's output for the scenario and the
\* telemetry the page holds, whatever the order in which uploads, Ingest,
\* Generate and Clear and the answers to their requests have come
C26_AnalysisOfTelemetry ==
  (net = <<>> /\ page.analysis # <<>>)
    => page.analysis =
         AnalyzeHandler(PageBody(page.scenario, page.telemetry)).output

\* the Clear button and the Copy and Export buttons are enabled
ClearEnabled == ~(page.loadingIngest \/ page.loadingAnalyze)
CopyEnabled ==
  ~(page.analysis = <<>> \/ page.loadingAnalyze \/ page.loadingIngest)

\* C27: in the page, loadingIngest is true in every state in which an
\* ingest request is outstanding, whether Ingest Logs or a file upload
\* started it, so that Generate, Clear, Copy and Export are not enabled
\* while an ingest is in flight
C27_LoadingWhileIngesting ==
  IngestFetches(net) # {}
    => /\ page.loadingIngest
       /\ ~readyForAnalyze
       /\ ~ClearEnabled
       /\ ~CopyEnabled


\* the requests without the i-th
Without(requests, i) ==
  SubSeq(requests, 1, i - 1) \o SubSeq(requests, i + 1, Len(requests))

\* an ingest that was given only white space has left errorMsg, from the
\* page shown
BlankIngestFrom(shown) ==
  /\ net' = net
  /\ page' = [shown EXCEPT !.errorMsg =
                <<"No log content loaded. Upload a file or paste logs first.">>]

\* an ingest has sent its request, from the page shown: telemetry and
\* scenario are left and analysis is cleared
IngestStartedFrom(shown) ==
  /\ Len(net') = Len(net) + 1
  /\ net'[Len(net')].route = "ingest"
  /\ page' = [shown EXCEPT !.loadingIngest = TRUE, !.errorMsg = <<>>,
                           !.analysis = <<>>]
  /\ page'.telemetry = page.telemetry
  /\ page'.scenario = page.scenario

\* the ingest of request i has failed: a message is in errorMsg, loading is
\* over and nothing else of the page has changed
IngestFailed(i) ==
  /\ net' = Without(net, i)
  /\ page'.errorMsg # <<>>
  /\ page' = [page EXCEPT !.errorMsg = page'.errorMsg, !.loadingIngest = FALSE]

\* the ingest of request i has succeeded
IngestSucceeded(i) ==
  /\ net' = Without(net, i)
  /\ IngestHandler(net[i].body).status = 200
  /\ page' = [page EXCEPT !.telemetry = page'.telemetry,
                          !.scenario = page'.scenario,
                          !.loadingIngest = FALSE]

\* C28: an ingest that fails, by an answer that is not ok or by an error
\* thrown, sets errorMsg and leaves telemetry and scenario as they were,
\* the analysis having been cleared when the ingest began; an ingest of
\* empty text or of white space sends no request and changes only errorMsg
C28_FailedIngestFrame ==
  [][/\ ingestLogs =>
          IF trim(page.rawText) = <<>>
            THEN BlankIngestFrom(page)
            ELSE IngestStartedFrom(page)
     /\ upload =>
          IF trim(page'.rawText) = <<>>
            THEN BlankIngestFrom([page EXCEPT !.rawText = page'.rawText,
                                              !.fileName = page'.fileName,
                                              !.fileBytes = page'.fileBytes,
                                              !.analysis = <<>>])
            ELSE IngestStartedFrom([page EXCEPT !.rawText = page'.rawText,
                                                !.fileName = page'.fileName,
                                                !.fileBytes = page'.fileBytes])
     /\ IngestSettles =>
          \E i \in IngestFetches(net) :
            \/ IngestFailed(i)
            \/ IngestSucceeded(i)
     /\ \A i \in IngestFetches(net) :
          (net' = Without(net, i) /\ IngestHandler(net[i].body).status # 200)
            => /\ IngestFailed(i)
               /\ Head(page'.errorMsg) \in {"Ingest error ", "Failed to fetch"}]_vars
\* an ingest has failed on a page that had telemetry: the telemetry is there
C28_Witness ==
  /\ page.errorMsg # <<>>
  /\ Head(page.errorMsg) = "Ingest error "
  /\ Len(page.telemetry.logs) > 0
  /\ page.analysis = <<>>
  /\ ~page.loadingIngest
  /\ net = <<>>


\* the values useState gives, of what clearAll restores
Restored(shown) ==
  /\ shown.rawText = <<>>
  /\ shown.fileName = <<>>
  /\ shown.fileBytes = 0
  /\ shown.telemetry = InitialPage.telemetry
  /\ shown.scenario = InitialPage.scenario
  /\ shown.analysis = <<>>
  /\ shown.errorMsg = <<>>
  /\ ~shown.copied

\* C29: clearAll changes nothing while loadingIngest or loadingAnalyze is
\* true; otherwise it restores rawText, the name and the size of the file,
\* telemetry, scenario, analysis, errorMsg and copied to their initial
\* values and leaves the loading flags and the requests in flight, so that
\* Generate is disabled; Generate is enabled again only by the step in
\* which an ingest succeeds
C29_ClearAllRestores ==
  [][/\ clearAll =>
          IF page.loadingIngest \/ page.loadingAnalyze
            THEN page' = page /\ net' = net
            ELSE /\ Restored(page')
                 /\ page'.loadingIngest = page.loadingIngest
                 /\ page'.loadingAnalyze = page.loadingAnalyze
                 /\ net' = net
                 /\ ~readyForAnalyze'
     /\ (Len(page.telemetry.logs) = 0 /\ Len(page'.telemetry.logs) > 0)
          => \E i \in IngestFetches(net) : IngestSucceeded(i)]_vars
\* clearAll has restored the page while a request, of an earlier upload,
\* was in flight: the request still is
C29_Witness ==
  /\ Restored(page)
  /\ ~readyForAnalyze
  /\ net # <<>>


\* C30: the step in which the request of an ingest or of a generate
\* settles, by an answer, by an answer that is not ok or by an error,
\* resets the loading flag of its handler; with no ingest request in flight
\* loadingIngest is false and with no analyze request in flight
\* loadingAnalyze is false; and, every request settling, a loading flag
\* that is true becomes false
C30_LoadingEnds ==
  /\ [][/\ IngestSettles => ~page'.loadingIngest
        /\ AnalyzeSettles => ~page'.loadingAnalyze]_vars
  /\ [](IngestFetches(net) = {} => ~page.loadingIngest)
  /\ [](AnalyzeFetches(net) = {} => ~page.loadingAnalyze)
  /\ (page.loadingIngest ~> ~page.loadingIngest)
  /\ (page.loadingAnalyze ~> ~page.loadingAnalyze)
\* a request of a page with telemetry has failed on the network and no
\* request is left: nothing is loading
C30_Witness ==
  /\ net = <<>>
  /\ page.errorMsg = <<"Failed to fetch">>
  /\ Len(page.telemetry.logs) > 0
  /\ page.analysis = <<>>
  /\ ~page.loadingIngest
  /\ ~page.loadingAnalyze

====
